---- MODULE Spec2Model ----
(***************************************************************************)
(* compacty: the argument-reference resolver (internal/config) and the     *)
(* concurrent compression orchestrator (internal/compressor, cmd/compacty).*)
(*                                                                         *)
(* Strings that the code inspects character by character (argument tokens  *)
(* and list names: strings.CutPrefix, strings.Join) are sequences of       *)
(* one-character strings; <<>> is the empty string "".                     *)
(***************************************************************************)
EXTENDS Integers, Sequences, FiniteSets, TLC

(***************************************************************************)
(* Bounds of the resolver universe.                                        *)
(***************************************************************************)
\* total number of tokens in one tool's argument map
MaxTokens == 3
\* depth at which the Go runtime's stack is taken to be exhausted
MaxDepth == 9

ReferencePrefix == <<"@">>

\* list names that may be defined on the tool: "", "s", "a", "b"
Names == {<<>>, <<"s">>, <<"a">>, <<"b">>}
Literals == {<<"x">>, <<"y">>}
Tokens == Literals \cup {ReferencePrefix \o n : n \in Names}

ToolNameAs == "cat"

(***************************************************************************)
(* Go library functions used by the resolver.                              *)
(***************************************************************************)
\* strings.HasPrefix / strings.CutPrefix(argument, ReferencePrefix)
HasPrefix(s, prefix) ==
    /\ Len(s) >= Len(prefix)
    /\ SubSeq(s, 1, Len(prefix)) = prefix

CutPrefix(s, prefix) ==
    IF HasPrefix(s, prefix)
    THEN [after |-> SubSeq(s, Len(prefix) + 1, Len(s)), found |-> TRUE]
    ELSE [after |-> s, found |-> FALSE]

\* slices.Contains
Contains(seq, e) == \E i \in 1..Len(seq) : seq[i] = e

\* strings.Join(elems, sep): the concatenation, sep between neighbours
RECURSIVE Join(_, _)
Join(elems, sep) ==
    IF Len(elems) = 0 THEN <<>>
    ELSE IF Len(elems) = 1 THEN elems[1]
    ELSE elems[1] \o sep \o Join(Tail(elems), sep)

TraceSep == <<" -> ">>

(***************************************************************************)
(* ToolConfig.resolveReferences (config.go:231-265).                       *)
(*                                                                         *)
(* The operator returns what the Go function returns (result, errs) and,   *)
(* for the analysis only: depth, the deepest call reached; overflow, TRUE  *)
(* when the recursion passed MaxDepth (the call never returns: the Go      *)
(* runtime aborts on stack exhaustion); paths, for each error the real     *)
(* call chain from the starting list to the call that reported it.  The    *)
(* parameters depth and path belong to that bookkeeping and are not read   *)
(* by the translated code.                                                 *)
(***************************************************************************)
\* a slip in line 236: the error names the missing list as its own location
UnknownPresetError_CitesItself(nameAs, presetName, previousPreset) ==
    [kind |-> "unknown", nameAs |-> nameAs, preset |-> presetName, at |-> presetName]

\* line 236: the error of a reference to an undefined list
UnknownPresetError(nameAs, presetName, previousPreset) ==
    [kind |-> "unknown", nameAs |-> nameAs, preset |-> presetName, at |-> previousPreset]

\* lines 239-242: the visited path handed down, extended by the caller's name
ExtendTrace(previousTrace, previousPreset) ==
    IF previousPreset # <<>> THEN Append(previousTrace, previousPreset)
    ELSE previousTrace

\* lines 244-247: the cycle error, its trace closed by the repeated name
CyclicPresetError(nameAs, trace, presetName) ==
    [kind |-> "cyclic", nameAs |-> nameAs,
     trace |-> Join(Append(trace, presetName), TraceSep)]

\* a slip in lines 256-257: the inner expansion lands in front of the tokens so far
AppendInner_Prepends(acc, inner) ==
    [result   |-> inner.result \o acc.result,
     errs     |-> acc.errs \o inner.errs,
     paths    |-> acc.paths \o inner.paths,
     depth    |-> IF inner.depth > acc.depth THEN inner.depth ELSE acc.depth,
     overflow |-> inner.overflow]

\* lines 256-257: an inner expansion is appended in place
AppendInner(acc, inner) ==
    [result   |-> acc.result \o inner.result,
     errs     |-> acc.errs \o inner.errs,
     paths    |-> acc.paths \o inner.paths,
     depth    |-> IF inner.depth > acc.depth THEN inner.depth ELSE acc.depth,
     overflow |-> inner.overflow]

\* line 261: a literal is appended
AppendLiteral(acc, argument) ==
    [acc EXCEPT !.result = Append(acc.result, argument)]

\* the names referenced by the first k tokens of a list
ReferencedBefore(list, k) ==
    LET refs == SelectSeq(SubSeq(list, 1, k), LAMBDA t : HasPrefix(t, ReferencePrefix))
    IN [j \in 1..Len(refs) |-> CutPrefix(refs[j], ReferencePrefix).after]

\* a slip in line 239: one visited list shared by the references of a list
CallerTrace_Shared(trace, list, i) == trace \o ReferencedBefore(list, i - 1)

\* line 239: every call extends a copy (slices.Clone), so the trace a list
\* hands to its i-th token is the one it handed to the first
CallerTrace(trace, list, i) == trace

RECURSIVE resolveReferences(_, _, _, _, _, _, _)
RECURSIVE resolveLoop(_, _, _, _, _, _, _, _)

\* lines 251-262: the loop over the list's tokens, from index i on
resolveLoop(Arguments, presetName, nameAs, trace, i, acc, depth, path) ==
    IF acc.overflow \/ i > Len(Arguments[presetName]) THEN acc
    ELSE LET argument == Arguments[presetName][i]
             cut == CutPrefix(argument, ReferencePrefix)
         IN IF cut.found
            THEN resolveLoop(Arguments, presetName, nameAs, trace, i + 1,
                     AppendInner(acc,
                         resolveReferences(Arguments, cut.after, nameAs, presetName,
                                           CallerTrace(trace, Arguments[presetName], i),
                                           depth + 1, path)),
                     depth, path)
            ELSE resolveLoop(Arguments, presetName, nameAs, trace, i + 1,
                     AppendLiteral(acc, argument), depth, path)

resolveReferences(Arguments, presetName, nameAs, previousPreset, previousTrace, depth, path) ==
    LET here == Append(path, presetName)
        none == [result |-> <<>>, errs |-> <<>>, paths |-> <<>>,
                 depth |-> depth, overflow |-> FALSE]
    IN IF depth > MaxDepth THEN [none EXCEPT !.overflow = TRUE]
       ELSE IF presetName \notin DOMAIN Arguments
       THEN [none EXCEPT !.errs = <<UnknownPresetError(nameAs, presetName, previousPreset)>>,
                         !.paths = <<here>>]
       ELSE LET trace == ExtendTrace(previousTrace, previousPreset)
            IN IF Contains(trace, presetName)
               THEN [none EXCEPT !.errs = <<CyclicPresetError(nameAs, trace, presetName)>>,
                                 !.paths = <<here>>]
               ELSE resolveLoop(Arguments, presetName, nameAs, trace, 1, none, depth, here)

\* lines 227-229
ResolveReferencesForPreset(Arguments, presetName, toolNameAs) ==
    resolveReferences(Arguments, presetName, toolNameAs, <<>>, <<>>, 1, <<>>)

(***************************************************************************)
(* The argument maps the resolver is run on: every map over Names with at  *)
(* most MaxTokens tokens in all.                                           *)
(***************************************************************************)
RECURSIVE ListsOfLen(_)
ListsOfLen(n) ==
    IF n = 0 THEN {<<>>}
    ELSE {Append(l, t) : l \in ListsOfLen(n - 1), t \in Tokens}

EmptyMap == [n \in {} |-> <<>>]

RECURSIVE ArgMapsOver(_, _)
ArgMapsOver(names, budget) ==
    IF names = {} THEN {EmptyMap}
    ELSE LET n == CHOOSE x \in names : TRUE
             rest == names \ {n}
         IN ArgMapsOver(rest, budget)
            \cup UNION {{(n :> l) @@ m : l \in ListsOfLen(k), m \in ArgMapsOver(rest, budget - k)}
                        : k \in 0..budget}

ArgMaps == ArgMapsOver(Names, MaxTokens)

VARIABLES rArgs, rStart, rOut

\* one call of moveFile: the file system before it, its arguments, what the
\* host lets it do, and the file system and the error it returns
VARIABLE mv

\* one call of cacheAvailability: the tools, the wrapper table and the host
\* it is given, and the availability set it caches
VARIABLE probe

\* the calls of QueryPreset on one configuration: the presets, the name
\* asked for and the answers of the calls so far
VARIABLE query

\* one call of SetTools, and of ForcePerFileMode when asked for: the
\* configuration, the names selected and the two sets of the job
VARIABLE sched

\* one call of benchDecodeTime: the file, the minimum measurement duration,
\* the function's position, its locals totalTime and trials, and its result
VARIABLE bench

\* the variables of the functions that are run on their own
pvars == <<rArgs, rStart, rOut, mv, probe, query, sched, bench>>

NoOut == [result |-> <<>>, errs |-> <<>>, paths |-> <<>>, depth |-> 0, overflow |-> FALSE]

RInit ==
    /\ rArgs \in ArgMaps
    /\ rStart \in Names
    /\ rOut = NoOut

\* one call of ResolveReferencesForPreset
Resolve ==
    /\ rOut.depth = 0
    /\ rOut' = ResolveReferencesForPreset(rArgs, rStart, ToolNameAs)
    /\ UNCHANGED <<rArgs, rStart>>


Resolved == rOut.depth > 0
Returned == Resolved /\ ~rOut.overflow

(***************************************************************************)
(* The orchestrator: one run of compacty on one group of same-type files   *)
(* (cmd/compacty run, internal/compressor CompressionProcess).             *)
(***************************************************************************)
\* number of input paths given on the command line
NumFiles == 2
SignalTools == 1
\* size of every original file, and the largest size a tool's artifact has
MaxSize == 2
MaxDecode == 2

Files == 1..NumFiles
Tools == {"t1", "t2"}

\* config.OutputMode (config.go:88-93), by its YAML tag; Unknown is the
\* value of a tool without an output-mode key
Unknown == "unknown"
BatchOverwrite == "batch-overwrite"
InputOutput == "input-output"
Stdout == "stdout"

\* write modes (part_003:27-32)
KeepBest == "KeepBest"
KeepAll == "KeepAll"
Overwrite == "Overwrite"
None == "None"
WriteModes == {KeepBest, KeepAll, Overwrite, None}

\* the Go string of a sequence of characters
RECURSIVE Str(_)
Str(chars) == IF chars = <<>> THEN "" ELSE Head(chars) \o Str(Tail(chars))

StrAll(tokens) == [i \in 1..Len(tokens) |-> Str(tokens[i])]

\* the host and the configured tools: t1 is native, t2 is a foreign binary
\* that runs under the wrapper configured for the host
GOOS == "linux"
Platform == [t \in Tools |-> IF t = "t1" THEN <<"linux">> ELSE <<"windows">>]
Wrappers == [p \in {"windows"} |-> "wine"]
TempDir == "tmp"
UsedPreset == <<"p">>

\* the argument maps a configuration may give its tools: no reference, a
\* resolvable reference, a cyclic reference, a cyclic reference of the list
\* named by the empty string
PlainArgs == (<<"p">> :> << <<"x">> >>)
ReferencingArgs == (<<"p">> :> << <<"@", "c">>, <<"x">> >>) @@ (<<"c">> :> << <<"y">> >>)
CyclicArgs == (<<"p">> :> << <<"@", "p">> >>)
EmptyNameArgs == (<<"p">> :> << <<"x">> >>) @@ (<<>> :> << <<"@">> >>)
ArgChoices == {PlainArgs, ReferencingArgs, CyclicArgs, EmptyNameArgs}

\* the output modes a configuration may declare
ModeChoices ==
    {m \in [Tools -> {Unknown, BatchOverwrite, InputOutput, Stdout}] :
        /\ m["t1"] # Stdout
        /\ m["t2"] \notin {Unknown, InputOutput}
        /\ (m["t1"] \in {Unknown, InputOutput} => m["t2"] = Stdout)}

\* the input paths of the command line, as filepath.Split and filepath.Ext
\* cut them (getFileInfo, part_003:818-839)
\* the paths are either of one directory, with distinct names, or of distinct
\* directories, with one name
BaseNames == <<"a", "b", "c", "d">>
Directories == <<"in1", "in2", "in3", "in4">>
DistinctPaths == [i \in Files |-> [dir |-> "in", base |-> BaseNames[i], ext |-> ".e"]]
SameNamePaths == [i \in Files |-> [dir |-> Directories[i], base |-> BaseNames[1],
                                   ext |-> ".e"]]
PathChoices == {DistinctPaths, SameNamePaths}

\* filepath.Join(dir, fileName)
JoinPath(dir, fileName) == dir \o "/" \o fileName

PathOf(ip) == JoinPath(ip.dir, ip.base \o ip.ext)

\* part_003:813-816
compressedFilePath(dir, baseName, toolName, extension) ==
    JoinPath(dir, baseName \o "-" \o toolName \o extension)

\* config.QueryWrapper (config.go:173-186)
RECURSIVE firstWrapper(_, _, _)
firstWrapper(wrappers, toolPlatform, i) ==
    IF i > Len(toolPlatform) THEN ""
    ELSE IF toolPlatform[i] \in DOMAIN wrappers /\ wrappers[toolPlatform[i]] # ""
         THEN wrappers[toolPlatform[i]]
         ELSE firstWrapper(wrappers, toolPlatform, i + 1)

QueryWrapper(wrappers, toolPlatform, currentPlatform) ==
    IF Contains(toolPlatform, currentPlatform) THEN ""
    ELSE firstWrapper(wrappers, toolPlatform, 1)

\* CompressionTool.Overwrites / CanBatchCompress (config.go:571-579)
Overwrites(tool) == tool.OutputMode = BatchOverwrite
CanBatchCompress(tool) == tool.OutputMode = BatchOverwrite

\* strings.HasSuffix, over the names the model's hosts and tools use
NameStems == {"./t1", "./t2", "./t3", "./t3.exe"}
HasSuffix(s, suffix) == \E stem \in NameStems : s = stem \o suffix

\* exec.LookPath of a name without a separator: host.onPath are the names
\* the search path resolves
LookPath(name, host) == name # "" /\ name \in host.onPath

\* fileExists (config.go:641-644): host.cwd are the files of the working
\* directory, by their relative path
fileExists(path, host) == path \in host.cwd

\* config.FindExecutablePath (config.go:142-169)
FindExecutablePath(executableName, toolPlatform, host) ==
    IF LookPath(executableName, host)
    THEN [path |-> "bin/" \o executableName, ok |-> TRUE]
    ELSE LET relative == (IF GOOS = "windows" THEN ".\\" ELSE "./") \o executableName
             exeRelative == relative \o ".exe"
         IN IF fileExists(relative, host) THEN [path |-> relative, ok |-> TRUE]
            ELSE IF /\ Contains(toolPlatform, "windows")
                    /\ ~HasSuffix(relative, ".exe")
                    /\ fileExists(exeRelative, host)
            THEN [path |-> exeRelative, ok |-> TRUE]
            ELSE [path |-> "", ok |-> FALSE]

\* an availability that asks for no wrapper
cacheAvailability_NoWrapperProbe(tools, wrappers, host) ==
    {toolName \in DOMAIN tools :
        FindExecutablePath(tools[toolName].Command, tools[toolName].Platform, host).ok}

\* Config.cacheAvailability (config.go:549-568), with QueryToolWrapper
\* (config.go:269-271); wrappers is the wrapper table of the host
cacheAvailability(tools, wrappers, host) ==
    {toolName \in DOMAIN tools :
        LET tool == tools[toolName]
            wrapper == QueryWrapper(wrappers, tool.Platform, GOOS)
        IN /\ Contains(tool.Platform, GOOS) \/ LookPath(wrapper, host)
           /\ FindExecutablePath(tool.Command, tool.Platform, host).ok}

(***************************************************************************)
(* State.                                                                  *)
(*   cli       the command-line flags and the input paths read by run      *)
(*   ctx       the context of signal.NotifyContext: done once a signal     *)
(*             arrived, inFlight when it arrived during a round            *)
(*   cfg       the loaded configuration: the tools' argument map and       *)
(*             output modes, and the cached availability set               *)
(*   fs        the file system: path -> [size, of, by]; of is the input    *)
(*             file the content derives from, by who wrote it: "" the user,*)
(*             "copy" a copy made of the input, else the tool              *)
(*   mainPc    where run (main.go:79-346) stands                           *)
(*   exitCode  the outcome of the run once it has returned                 *)
(*   job       OperatedFiles: BatchableTools and PerFileTools              *)
(*   proc      CompressionProcess: OriginalFileInfo, TempFiles, Results    *)
(*   round     the round in flight: its commands and its tasks             *)
(*   flags     hasTools, isRan, hasErrors of run                           *)
(*   save      writeMode and the progress of SaveResultsAndReport          *)
(*   spawned   every subprocess started so far: [tool, file, entry, argv,  *)
(*             inputs, exit]                                               *)
(***************************************************************************)
VARIABLES cli, ctx, cfg, fs, mainPc, exitCode, job, proc, round, flags, save, spawned

ovars == <<cli, ctx, cfg, fs, mainPc, exitCode, job, proc, round, flags, save, spawned>>

vars == <<rArgs, rStart, rOut, mv, probe, query, sched, bench, cli, ctx, cfg, fs, mainPc, exitCode, job, proc, round,
          flags, save, spawned>>

InputPath(i) == cli.Paths[i]

Exists(f, path) == path \in DOMAIN f
WriteFile(f, path, content) == (path :> content) @@ f
RemoveFile(f, path) == [q \in DOMAIN f \ {path} |-> f[q]]

NoRound == [kind |-> "none", fileIdx |-> 0, toPrepare |-> {}, commands |-> EmptyMap,
            taskPc |-> EmptyMap, pending |-> EmptyMap, mutex |-> "", late |-> FALSE]

\* the context before any signal
Live == [done |-> FALSE, inFlight |-> FALSE]

\* the exit codes of part_006:467-476, and 1 for the plain error of main.go:342
ExitOk == 0
ExitError == 1
BadUsage == 2
BadInput == 3
BadConfig == 10
Interrupted == 130
Running == 0 - 1

\* main.go:321-345 and 66-75: the status run's return value makes main exit with
ExitStatus(hasTools, isRan, hasErrors) ==
    IF ~hasTools THEN BadUsage
    ELSE IF ~isRan THEN BadInput
    ELSE IF hasErrors THEN ExitError
    ELSE ExitOk

\* the tools of the configuration, the wrapper tables it may give the host,
\* and the hosts: what the search path resolves (the working directory
\* holds no executable)
ToolConfigs == [t \in Tools |-> [Command |-> t, Platform |-> Platform[t]]]
WrapperChoices == {Wrappers, EmptyMap}
Hosts == [onPath : SUBSET (Tools \cup {"wine"}), cwd : {{}}]

\* run is entered with any flags, configuration and input files of the
\* bounded universe; to keep the universe small, validation is skipped only
\* for the configuration it would reject, only the configuration with a
\* resolvable reference is given both tools, and only the configuration
\* without a reference is given the paths of one name; the decode time is
\* benchmarked for the configuration without a reference and the first input;
\* a tool without an output mode is in the configuration without a reference
OInit ==
    /\ cli \in [PerFile : BOOLEAN, SkipValidation : BOOLEAN, DecodeTime : BOOLEAN,
                Paths : PathChoices]
    /\ ctx = Live
    /\ \E a \in ArgChoices, m \in ModeChoices, w \in WrapperChoices, host \in Hosts :
          \* DecodeConfigFile caches the availability (config.go:218, 494-504)
          /\ cfg = [Arguments |-> a, OutputMode |-> m, Wrappers |-> w,
                    toolAvailability |-> cacheAvailability(ToolConfigs, w, host)]
          /\ a # ReferencingArgs => (cfg.toolAvailability = {"t1"} /\ w = Wrappers)
          /\ cli.SkipValidation => a = CyclicArgs
          /\ m["t1"] = Unknown => (a = PlainArgs /\ ~cli.PerFile /\ ~cli.DecodeTime)
          /\ cli.Paths = SameNamePaths => a = PlainArgs
          /\ cli.DecodeTime => a = PlainArgs /\ cli.Paths = DistinctPaths
    /\ \E present \in SUBSET Files :
          /\ cli.DecodeTime => present \subseteq {1}
          /\ fs = [q \in {PathOf(InputPath(i)) : i \in present} |->
                     [size |-> MaxSize,
                      of |-> CHOOSE i \in present : PathOf(InputPath(i)) = q,
                      by |-> ""]]
    /\ mainPc = "validate"
    /\ exitCode = Running
    /\ job = [BatchableTools |-> EmptyMap, PerFileTools |-> EmptyMap]
    /\ proc = [OriginalFileInfo |-> <<>>, TempFiles |-> EmptyMap, Results |-> EmptyMap]
    /\ round = NoRound
    /\ flags = [hasTools |-> FALSE, isRan |-> FALSE, hasErrors |-> FALSE]
    /\ save = [writeMode |-> "", next |-> 1, best |-> <<>>, bestDecode |-> <<>>, allOk |-> TRUE]
    /\ spawned = {}

(***************************************************************************)
(* Config.Validate, the part that resolves references (config.go:481-487): *)
(* every list of every tool is resolved and its errors are reported.       *)
(***************************************************************************)
ReferenceErrors(Arguments, toolName) ==
    UNION {{ResolveReferencesForPreset(Arguments, preset, toolName).errs[i] :
              i \in 1..Len(ResolveReferencesForPreset(Arguments, preset, toolName).errs)}
           : preset \in DOMAIN Arguments}

ValidateErrors == UNION {ReferenceErrors(cfg.Arguments, t) : t \in Tools}

\* a resolution of Validate that does not return: the stack is exhausted
ValidateOverflows ==
    \E t \in Tools, preset \in DOMAIN cfg.Arguments :
        ResolveReferencesForPreset(cfg.Arguments, preset, t).overflow

\* main.go:147-159; the runtime ends the program when Validate exhausts the
\* stack
Validate ==
    /\ mainPc = "validate"
    /\ IF ~cli.SkipValidation /\ ValidateOverflows
       THEN /\ mainPc' = "crashed"
            /\ UNCHANGED exitCode
       ELSE IF ~cli.SkipValidation /\ ValidateErrors # {}
       THEN /\ mainPc' = "exit"
            /\ exitCode' = BadConfig
       ELSE /\ mainPc' = "schedule"
            /\ UNCHANGED exitCode
    /\ UNCHANGED pvars
    /\ UNCHANGED <<cli, ctx, cfg, fs, job, proc, round, flags, save, spawned>>

(***************************************************************************)
(* Scheduling: SetTools and ForcePerFileMode (part_006:120-162) with every *)
(* configured tool selected, ToolConfigToExecutedTool (part_003:356-366).  *)
(***************************************************************************)
ToolConfigToExecutedTool(tool, argPreset) ==
    IF argPreset \in DOMAIN tool.Arguments
    THEN [ok |-> TRUE,
          tool |-> [Command |-> tool.Command, Platform |-> tool.Platform,
                    OutputMode |-> tool.OutputMode,
                    Arguments |-> tool.Arguments[argPreset]]]
    ELSE [ok |-> FALSE, tool |-> <<>>]

\* a selection that does not ask whether the tool is available
Eligible_Unprobed(tools, availability, preset, toolNames, mime) ==
    {toolName \in {toolNames[i] : i \in 1..Len(toolNames)} :
        /\ toolName \in DOMAIN tools
        /\ Contains(tools[toolName].SupportedFormats, mime)
        /\ ToolConfigToExecutedTool(tools[toolName], preset).ok}

\* part_006:124-142: the named tools SetTools keeps: defined, available
\* (Config.IsToolAvailable, config.go:275-278), of the file's format and
\* with arguments for the preset
Eligible(tools, availability, preset, toolNames, mime) ==
    {toolName \in {toolNames[i] : i \in 1..Len(toolNames)} :
        /\ toolName \in DOMAIN tools
        /\ toolName \in availability
        /\ Contains(tools[toolName].SupportedFormats, mime)
        /\ ToolConfigToExecutedTool(tools[toolName], preset).ok}

\* OperatedFiles.SetTools (part_006:120-153)
SetTools(tools, availability, preset, toolNames, mime) ==
    LET kept == Eligible(tools, availability, preset, toolNames, mime)
    IN [BatchableTools |->
           [t \in {u \in kept : CanBatchCompress(tools[u])} |->
               ToolConfigToExecutedTool(tools[t], preset).tool],
        PerFileTools |->
           [t \in {u \in kept : ~CanBatchCompress(tools[u])} |->
               ToolConfigToExecutedTool(tools[t], preset).tool]]

\* the tools of the loaded configuration, all of the format of the inputs,
\* and the names run selects: every tool
Mime == "image/png"
ConfiguredTools ==
    [t \in Tools |->
        [Command |-> t, Platform |-> Platform[t], OutputMode |-> cfg.OutputMode[t],
         SupportedFormats |-> <<Mime>>,
         Arguments |-> [p \in DOMAIN cfg.Arguments |-> StrAll(cfg.Arguments[p])]]]
SelectedTools == <<"t1", "t2">>

ForcePerFileMode(of) ==
    [BatchableTools |-> EmptyMap,
     PerFileTools |-> of.BatchableTools @@ of.PerFileTools]

\* getFileSize (part_003:841-848)
getFileSize(f, path) ==
    IF Exists(f, path) THEN [size |-> f[path].size, err |-> FALSE]
    ELSE [size |-> 0, err |-> TRUE]

\* the zero value of DecodeTimeBench (part_004:18-24)
NoDecode == [Average |-> 0, Err |-> FALSE]

\* getFileInfo (part_003:818-839)
getFileInfo(f, ip) ==
    [Path |-> PathOf(ip), Directory |-> ip.dir, BaseName |-> ip.base,
     Extension |-> ip.ext, Size |-> getFileSize(f, PathOf(ip)).size, Decode |-> NoDecode]

\* NewCompressionProcess (part_003:103-138): the inputs that can be read, in order
ValidInputs == SelectSeq([i \in Files |-> InputPath(i)],
                         LAMBDA ip : ~getFileSize(fs, PathOf(ip)).err)

\* main.go:216-265: the job's tools are chosen, the process is created and
\* its CleanUp deferred; without tools or without readable inputs run ends
Schedule ==
    /\ mainPc = "schedule"
    /\ LET set == SetTools(ConfiguredTools, cfg.toolAvailability, UsedPreset,
                           SelectedTools, Mime)
           of == IF cli.PerFile THEN ForcePerFileMode(set) ELSE set
           hasTools == DOMAIN of.BatchableTools # {} \/ DOMAIN of.PerFileTools # {}
           infos == [i \in 1..Len(ValidInputs) |-> getFileInfo(fs, ValidInputs[i])]
           isRan == hasTools /\ Len(infos) > 0
           hasErrors == hasTools /\ Len(ValidInputs) < NumFiles
       IN /\ job' = of
          /\ flags' = [hasTools |-> hasTools, isRan |-> isRan, hasErrors |-> hasErrors]
          /\ IF isRan
             THEN /\ proc' = [proc EXCEPT !.OriginalFileInfo = infos]
                  /\ mainPc' = "round"
                  /\ UNCHANGED exitCode
             ELSE /\ mainPc' = "exit"
                  /\ exitCode' = ExitStatus(hasTools, isRan, hasErrors)
                  /\ UNCHANGED proc
    /\ UNCHANGED pvars
    /\ UNCHANGED <<cli, ctx, cfg, fs, round, save, spawned>>

(***************************************************************************)
(* Preparing a round: newCompressionCommand, prepareSingleTempFile,        *)
(* prepareTempFiles, prepareCommand, writeCommandLine.                     *)
(***************************************************************************)
\* copyFileTo (part_003:850-865); how is what the host lets happen: "ok",
\* "create" (os.Create fails) or "copy" (io.Copy fails on a created file)
CopyOutcomes == {"ok", "create"}

copyFileTo(f, pathSrc, pathDest, by, how) ==
    IF ~Exists(f, pathSrc) THEN [fs |-> f, err |-> TRUE]
    ELSE IF how = "create" THEN [fs |-> f, err |-> TRUE]
    ELSE IF how = "copy"
    THEN [fs |-> WriteFile(f, pathDest, [size |-> 0, of |-> f[pathSrc].of, by |-> by]),
          err |-> TRUE]
    ELSE [fs |-> WriteFile(f, pathDest, [f[pathSrc] EXCEPT !.by = by]), err |-> FALSE]

\* os.Create of the stdout capture file (part_003:578)
osCreate(f, path, of, by, how) ==
    IF how = "ok" THEN [fs |-> WriteFile(f, path, [size |-> 0, of |-> of, by |-> by]),
                        err |-> FALSE]
    ELSE [fs |-> f, err |-> TRUE]

\* part_003:558-572
newCompressionCommand(toolName, tool, wrapper) ==
    [toolName |-> toolName, tool |-> tool, wrapper |-> wrapper,
     arguments |-> tool.Arguments, inputPaths |-> <<>>, stdoutFile |-> "",
     hasCommand |-> FALSE, entry |-> "", usedArgs |-> <<>>,
     commandError |-> "", isAvailable |-> FALSE]

\* a preparation that hands an overwriting tool the original itself
prepareSingleTempFile_InPlace(cc, f, fileIdx, fileInfo, how) ==
    LET tempPath == compressedFilePath(TempDir, fileInfo.BaseName, cc.toolName,
                                       fileInfo.Extension)
        failed == [Path |-> tempPath, CreateError |-> TRUE]
        fine == [Path |-> tempPath, CreateError |-> FALSE]
    IN IF cc.tool.OutputMode = Stdout
       THEN LET c == osCreate(f, tempPath,
                                IF Exists(f, fileInfo.Path) THEN f[fileInfo.Path].of ELSE 0,
                                cc.toolName, how)
            IN IF c.err
               THEN [cc |-> [cc EXCEPT !.inputPaths = <<>>], tempFile |-> failed, fs |-> c.fs]
               ELSE [cc |-> [cc EXCEPT !.stdoutFile = tempPath,
                                       !.inputPaths = <<fileInfo.Path>>],
                     tempFile |-> fine, fs |-> c.fs]
       ELSE IF Overwrites(cc.tool)
       THEN LET c == copyFileTo(f, fileInfo.Path, tempPath, "copy", how)
            IN IF c.err
               THEN [cc |-> [cc EXCEPT !.inputPaths = <<>>], tempFile |-> failed, fs |-> c.fs]
               ELSE [cc |-> [cc EXCEPT !.inputPaths = <<fileInfo.Path>>],
                     tempFile |-> fine, fs |-> c.fs]
       ELSE [cc |-> [cc EXCEPT !.inputPaths = <<fileInfo.Path, tempPath>>],
             tempFile |-> fine, fs |-> f]

\* a preparation that runs a stdout tool although its capture file is missing
prepareSingleTempFile_RunsUncaptured(cc, f, fileIdx, fileInfo, how) ==
    LET tempPath == compressedFilePath(TempDir, fileInfo.BaseName, cc.toolName,
                                       fileInfo.Extension)
        failed == [Path |-> tempPath, CreateError |-> TRUE]
        fine == [Path |-> tempPath, CreateError |-> FALSE]
    IN IF cc.tool.OutputMode = Stdout
       THEN LET c == osCreate(f, tempPath,
                                IF Exists(f, fileInfo.Path) THEN f[fileInfo.Path].of ELSE 0,
                                cc.toolName, how)
            IN IF c.err
               THEN [cc |-> [cc EXCEPT !.inputPaths = <<fileInfo.Path>>],
                     tempFile |-> failed, fs |-> c.fs]
               ELSE [cc |-> [cc EXCEPT !.stdoutFile = tempPath,
                                       !.inputPaths = <<fileInfo.Path>>],
                     tempFile |-> fine, fs |-> c.fs]
       ELSE IF Overwrites(cc.tool)
       THEN LET c == copyFileTo(f, fileInfo.Path, tempPath, "copy", how)
            IN IF c.err
               THEN [cc |-> [cc EXCEPT !.inputPaths = <<>>], tempFile |-> failed, fs |-> c.fs]
               ELSE [cc |-> [cc EXCEPT !.inputPaths = <<tempPath>>],
                     tempFile |-> fine, fs |-> c.fs]
       ELSE [cc |-> [cc EXCEPT !.inputPaths = <<fileInfo.Path, tempPath>>],
             tempFile |-> fine, fs |-> f]

\* a preparation that names the output before the input
prepareSingleTempFile_OutputFirst(cc, f, fileIdx, fileInfo, how) ==
    LET tempPath == compressedFilePath(TempDir, fileInfo.BaseName, cc.toolName,
                                       fileInfo.Extension)
        failed == [Path |-> tempPath, CreateError |-> TRUE]
        fine == [Path |-> tempPath, CreateError |-> FALSE]
    IN IF cc.tool.OutputMode = Stdout
       THEN LET c == osCreate(f, tempPath,
                                IF Exists(f, fileInfo.Path) THEN f[fileInfo.Path].of ELSE 0,
                                cc.toolName, how)
            IN IF c.err
               THEN [cc |-> [cc EXCEPT !.inputPaths = <<>>], tempFile |-> failed, fs |-> c.fs]
               ELSE [cc |-> [cc EXCEPT !.stdoutFile = tempPath,
                                       !.inputPaths = <<fileInfo.Path>>],
                     tempFile |-> fine, fs |-> c.fs]
       ELSE IF Overwrites(cc.tool)
       THEN LET c == copyFileTo(f, fileInfo.Path, tempPath, "copy", how)
            IN IF c.err
               THEN [cc |-> [cc EXCEPT !.inputPaths = <<>>], tempFile |-> failed, fs |-> c.fs]
               ELSE [cc |-> [cc EXCEPT !.inputPaths = <<tempPath>>],
                     tempFile |-> fine, fs |-> c.fs]
       ELSE [cc |-> [cc EXCEPT !.inputPaths = <<tempPath, fileInfo.Path>>],
             tempFile |-> fine, fs |-> f]

\* part_003:574-612: the command, the temp file and the file system after it
prepareSingleTempFile(cc, f, fileIdx, fileInfo, how) ==
    LET tempPath == compressedFilePath(TempDir, fileInfo.BaseName, cc.toolName,
                                       fileInfo.Extension)
        failed == [Path |-> tempPath, CreateError |-> TRUE]
        fine == [Path |-> tempPath, CreateError |-> FALSE]
    IN IF cc.tool.OutputMode = Stdout
       THEN LET c == osCreate(f, tempPath,
                                IF Exists(f, fileInfo.Path) THEN f[fileInfo.Path].of ELSE 0,
                                cc.toolName, how)
            IN IF c.err
               THEN [cc |-> [cc EXCEPT !.inputPaths = <<>>], tempFile |-> failed, fs |-> c.fs]
               ELSE [cc |-> [cc EXCEPT !.stdoutFile = tempPath,
                                       !.inputPaths = <<fileInfo.Path>>],
                     tempFile |-> fine, fs |-> c.fs]
       ELSE IF Overwrites(cc.tool)
       THEN LET c == copyFileTo(f, fileInfo.Path, tempPath, "copy", how)
            IN IF c.err
               THEN [cc |-> [cc EXCEPT !.inputPaths = <<>>], tempFile |-> failed, fs |-> c.fs]
               ELSE [cc |-> [cc EXCEPT !.inputPaths = <<tempPath>>],
                     tempFile |-> fine, fs |-> c.fs]
       ELSE [cc |-> [cc EXCEPT !.inputPaths = <<fileInfo.Path, tempPath>>],
             tempFile |-> fine, fs |-> f]

\* a loop that hands the tool the temp path of a copy that failed too
RECURSIVE prepareTempFiles_KeepsFailed(_, _, _, _, _, _)
prepareTempFiles_KeepsFailed(cc, f, fileInfo, hows, i, tempFiles) ==
    IF i > Len(fileInfo) THEN [cc |-> cc, tempFiles |-> tempFiles, fs |-> f]
    ELSE LET file == fileInfo[i]
             tempPath == compressedFilePath(TempDir, file.BaseName, cc.toolName,
                                            file.Extension)
             c == copyFileTo(f, file.Path, tempPath, "copy", hows[i])
         IN prepareTempFiles_KeepsFailed(
                [cc EXCEPT !.inputPaths = Append(cc.inputPaths, tempPath)],
                c.fs, fileInfo, hows, i + 1,
                Append(tempFiles, [Path |-> tempPath, CreateError |-> c.err]))

\* part_003:614-636: the loop over the files, from index i on; hows[i] is
\* what the host lets the copy of file i do
RECURSIVE prepareTempFiles(_, _, _, _, _, _)
prepareTempFiles(cc, f, fileInfo, hows, i, tempFiles) ==
    IF i > Len(fileInfo) THEN [cc |-> cc, tempFiles |-> tempFiles, fs |-> f]
    ELSE LET file == fileInfo[i]
             tempPath == compressedFilePath(TempDir, file.BaseName, cc.toolName,
                                            file.Extension)
             c == copyFileTo(f, file.Path, tempPath, "copy", hows[i])
         IN prepareTempFiles(
                IF c.err THEN cc
                ELSE [cc EXCEPT !.inputPaths = Append(cc.inputPaths, tempPath)],
                c.fs, fileInfo, hows, i + 1,
                Append(tempFiles, [Path |-> tempPath, CreateError |-> c.err]))

\* config.FindExecutablePath as the host answers it when the command is prepared
ExecutablePath(command) == JoinPath("bin", command)

\* a command that starts a foreign tool itself
prepareCommand_NoIndirection(cc, found) ==
    IF ~found THEN cc
    ELSE [cc EXCEPT !.hasCommand = TRUE, !.entry = ExecutablePath(cc.tool.Command),
                    !.usedArgs = cc.tool.Arguments \o cc.inputPaths, !.isAvailable = TRUE]

\* part_003:675-698; found is the answer of FindExecutablePath
prepareCommand(cc, found) ==
    IF ~found THEN cc
    ELSE LET foreign == ~Contains(cc.tool.Platform, GOOS)
             commandString == IF foreign THEN cc.wrapper ELSE ExecutablePath(cc.tool.Command)
             usedArgs == (IF foreign THEN <<ExecutablePath(cc.tool.Command)>> ELSE <<>>)
                         \o cc.tool.Arguments \o cc.inputPaths
         IN [cc EXCEPT !.hasCommand = TRUE, !.entry = commandString,
                       !.usedArgs = usedArgs, !.isAvailable = TRUE]

\* part_003:638-673: cc.command.Args[0] is read first; a command that was
\* never built is a nil pointer there
writeCommandLinePanics(cc) == ~cc.hasCommand

NilResult == [nil |-> TRUE]

NilResults(n) == [i \in 1..n |-> NilResult]
NoTempFiles(n) == [i \in 1..n |-> [Path |-> "", CreateError |-> FALSE]]

\* a loop that enters a round again when one of its commands has failed
NextRound_RetriesFailed ==
    IF round.kind # "none" /\ \E n \in DOMAIN round.commands : round.commands[n].commandError = "exit"
    THEN [kind |-> round.kind, fileIdx |-> round.fileIdx]
    ELSE IF round.kind = "none" /\ DOMAIN job.BatchableTools # {}
    THEN [kind |-> "batch", fileIdx |-> 0]
    ELSE IF DOMAIN job.PerFileTools # {} /\ round.fileIdx < Len(proc.OriginalFileInfo)
    THEN [kind |-> "single", fileIdx |-> round.fileIdx + 1]
    ELSE [kind |-> "none", fileIdx |-> 0]

\* main.go:267-310: the next round is entered: the batch round first, then
\* one round per file; after the last one the results are saved
NextRound ==
    IF round.kind = "none" /\ DOMAIN job.BatchableTools # {}
    THEN [kind |-> "batch", fileIdx |-> 0]
    ELSE IF DOMAIN job.PerFileTools # {} /\ round.fileIdx < Len(proc.OriginalFileInfo)
    THEN [kind |-> "single", fileIdx |-> round.fileIdx + 1]
    ELSE [kind |-> "none", fileIdx |-> 0]

StartRound ==
    /\ mainPc = "round"
    /\ LET nr == NextRound
       IN IF nr.kind = "none"
          THEN /\ round' = NoRound
               \* cliArguments.WriteMode() (main.go:233, 386-396) is first used
               \* by SaveResultsAndReport: any of the four policies
               /\ IF cli.DecodeTime
                  THEN /\ mainPc' = "decode"
                       /\ UNCHANGED save
                  ELSE /\ mainPc' = "save"
                       /\ \E w \in WriteModes : save' = [save EXCEPT !.writeMode = w]
          ELSE /\ mainPc' = "prepare"
               \* late: the round is begun although the context is done
               /\ round' = [NoRound EXCEPT !.kind = nr.kind, !.fileIdx = nr.fileIdx,
                               !.late = ctx.done,
                               !.toPrepare = IF nr.kind = "batch"
                                             THEN DOMAIN job.BatchableTools
                                             ELSE DOMAIN job.PerFileTools]
               /\ UNCHANGED save
    /\ UNCHANGED pvars
    /\ UNCHANGED <<cli, ctx, cfg, fs, exitCode, job, proc, flags, spawned>>

\* CompressAll, one pass of its first loop (part_003:205-220)
PrepareBatch(name) ==
    /\ mainPc = "prepare"
    /\ round.kind = "batch"
    /\ name \in round.toPrepare
    /\ \E hows \in [1..Len(proc.OriginalFileInfo) -> CopyOutcomes], found \in BOOLEAN :
          LET tool == job.BatchableTools[name]
              wrapper == QueryWrapper(cfg.Wrappers, tool.Platform, GOOS)
              p == prepareTempFiles(newCompressionCommand(name, tool, wrapper), fs,
                                    proc.OriginalFileInfo, hows, 1, <<>>)
              command == prepareCommand(p.cc, found)
          IN /\ fs' = p.fs
             /\ proc' = [proc EXCEPT !.TempFiles = (name :> p.tempFiles) @@ @]
             /\ round' = [round EXCEPT !.toPrepare = @ \ {name},
                                       !.commands = (name :> command) @@ @]
             /\ mainPc' = IF writeCommandLinePanics(command) THEN "panic" ELSE "prepare"
    /\ UNCHANGED pvars
    /\ UNCHANGED <<cli, ctx, cfg, exitCode, job, flags, save, spawned>>

\* CompressSingle, one pass of its first loop (part_003:144-162)
PrepareSingle(name) ==
    /\ mainPc = "prepare"
    /\ round.kind = "single"
    /\ name \in round.toPrepare
    /\ \E how \in CopyOutcomes, found \in BOOLEAN :
          LET tool == job.PerFileTools[name]
              n == Len(proc.OriginalFileInfo)
              results == IF name \in DOMAIN proc.Results THEN proc.Results
                         ELSE (name :> NilResults(n)) @@ proc.Results
              tempFiles == IF name \in DOMAIN proc.TempFiles THEN proc.TempFiles
                           ELSE (name :> NoTempFiles(n)) @@ proc.TempFiles
              wrapper == QueryWrapper(cfg.Wrappers, tool.Platform, GOOS)
              p == prepareSingleTempFile(newCompressionCommand(name, tool, wrapper), fs,
                                         round.fileIdx,
                                         proc.OriginalFileInfo[round.fileIdx], how)
              command == prepareCommand(p.cc, found)
          IN /\ fs' = p.fs
             /\ proc' = [proc EXCEPT
                           !.Results = results,
                           !.TempFiles = [tempFiles EXCEPT ![name][round.fileIdx] = p.tempFile]]
             /\ round' = [round EXCEPT !.toPrepare = @ \ {name},
                                       !.commands = (name :> command) @@ @]
             /\ mainPc' = IF writeCommandLinePanics(command) THEN "panic" ELSE "prepare"
    /\ UNCHANGED pvars
    /\ UNCHANGED <<cli, ctx, cfg, exitCode, job, flags, save, spawned>>

\* part_003:166-198 and 224-254: the round's goroutine starts one task per command
Launch ==
    /\ mainPc = "prepare"
    /\ round.toPrepare = {}
    /\ mainPc' = "await"
    /\ round' = [round EXCEPT !.taskPc = [t \in DOMAIN round.commands |-> "run"]]
    /\ UNCHANGED pvars
    /\ UNCHANGED <<cli, ctx, cfg, fs, exitCode, job, proc, flags, save, spawned>>

(***************************************************************************)
(* The tasks of a round: executeAndReport, generateSingleResult,           *)
(* generateResults, the locked write into Results, the join.               *)
(***************************************************************************)
\* what a run of the tool leaves at one output path: nothing, or a file of
\* some size
Untouched == 0 - 1

\* the paths a tool of each output mode writes to
OutputPaths(cc) ==
    IF cc.tool.OutputMode = Stdout THEN {cc.stdoutFile}
    ELSE IF Overwrites(cc.tool) THEN {cc.inputPaths[i] : i \in 1..Len(cc.inputPaths)}
    ELSE {cc.inputPaths[2]}

\* the input a tool reads to produce the output at path
InputFor(cc, path) ==
    IF cc.tool.OutputMode = BatchOverwrite THEN path ELSE cc.inputPaths[1]

\* the subprocess (exec.Cmd.Run, part_003:728): run.writes is what it leaves
\* at each output path
RunTool(cc, f, run) ==
    LET written == {q \in OutputPaths(cc) : run.writes[q] # Untouched}
    IN [q \in DOMAIN f \cup written |->
          IF q \in written
          THEN [size |-> run.writes[q],
                of |-> IF Exists(f, InputFor(cc, q)) THEN f[InputFor(cc, q)].of ELSE 0,
                by |-> cc.toolName]
          ELSE f[q]]

\* a run whose exit status is dropped
RunError_Dropped(exit) == ""

\* part_003:732-736: the error Run returned is kept on the command
RunError(exit) == IF exit # 0 THEN "exit" ELSE ""

\* part_003:712-748
executeAndReport(cc, f, run) ==
    IF ~cc.isAvailable
    THEN [cc |-> [cc EXCEPT !.commandError = "notfound"], fs |-> f, ran |-> FALSE]
    ELSE IF Len(cc.inputPaths) = 0
    THEN [cc |-> [cc EXCEPT !.commandError = "noinput"], fs |-> f, ran |-> FALSE]
    ELSE LET err == RunError(run.exit)
         IN [cc |-> [cc EXCEPT !.commandError =
                        IF err # "" THEN err
                        ELSE IF cc.stdoutFile # "" /\ ~run.closes THEN "close"
                        ELSE ""],
             fs |-> RunTool(cc, f, run), ran |-> run.starts]

\* part_003:796-811
generateErrorResult(cc, err, originalFileInfo, tempFile) ==
    [nil |-> FALSE, FinalSize |-> originalFileInfo.Size,
     OriginalSize |-> originalFileInfo.Size, CommandError |-> err,
     ReadFinalSizeError |-> FALSE, CreateError |-> tempFile.CreateError,
     DecodeErr |-> FALSE, DecodeAverage |-> 0]

\* part_003:750-785
generateSingleResult(cc, f, originalFileInfo, tempFile) ==
    IF ~cc.isAvailable
    THEN generateErrorResult(cc, "notfound", originalFileInfo, tempFile)
    ELSE IF tempFile.CreateError
    THEN [nil |-> FALSE, FinalSize |-> originalFileInfo.Size,
          OriginalSize |-> originalFileInfo.Size, CommandError |-> cc.commandError,
          ReadFinalSizeError |-> FALSE, CreateError |-> TRUE, DecodeErr |-> FALSE,
          DecodeAverage |-> 0]
    ELSE LET sz == getFileSize(f, tempFile.Path)
         IN [nil |-> FALSE, FinalSize |-> sz.size,
             OriginalSize |-> originalFileInfo.Size, CommandError |-> cc.commandError,
             ReadFinalSizeError |-> sz.err, CreateError |-> FALSE, DecodeErr |-> FALSE,
             DecodeAverage |-> 0]

\* part_003:787-794
generateResults(cc, f, originalFileInfo, tempFiles) ==
    [i \in 1..Len(tempFiles) |-> generateSingleResult(cc, f, originalFileInfo[i], tempFiles[i])]

\* the runs the host may give a command: any exit status and any artifact at
\* each output path (a failed run leaves none or an empty one); the capture
\* file is closed, successfully or not, only after a successful run
Artifacts(exit) == IF exit = 0 THEN {Untouched} \cup (0..MaxSize) ELSE {Untouched, 0}

\* the command is bound to the context (exec.CommandContext, part_003:692):
\* once the context is done a command not yet started is refused, and one
\* already running is killed
Killed(cc) == [exit : {1}, writes : [OutputPaths(cc) -> Artifacts(1)], closes : {TRUE},
               starts : {TRUE}]

Runs(cc, c) ==
    IF ~cc.isAvailable \/ Len(cc.inputPaths) = 0
    THEN {[exit |-> 0, writes |-> EmptyMap, closes |-> TRUE, starts |-> FALSE]}
    ELSE IF c.done
    THEN {[exit |-> 1, writes |-> [q \in OutputPaths(cc) |-> Untouched],
           closes |-> TRUE, starts |-> FALSE]} \cup Killed(cc)
    ELSE UNION {[exit : {x}, writes : [OutputPaths(cc) -> Artifacts(x)],
                 closes : IF cc.stdoutFile # "" /\ x = 0 THEN BOOLEAN ELSE {TRUE},
                 starts : {TRUE}]
                : x \in {0, 1}}

\* part_003:181-186 and 239-242: the task runs its command and builds its result
TaskExecute(name) ==
    /\ mainPc = "await"
    /\ name \in DOMAIN round.taskPc
    /\ round.taskPc[name] = "run"
    /\ \E run \in Runs(round.commands[name], ctx) :
          LET e == executeAndReport(round.commands[name], fs, run)
              result == IF round.kind = "batch"
                        THEN generateResults(e.cc, e.fs, proc.OriginalFileInfo,
                                             proc.TempFiles[name])
                        ELSE generateSingleResult(e.cc, e.fs,
                                                  proc.OriginalFileInfo[round.fileIdx],
                                                  proc.TempFiles[name][round.fileIdx])
          IN /\ fs' = e.fs
             /\ round' = [round EXCEPT !.commands[name] = e.cc,
                                       !.taskPc[name] = "record",
                                       !.pending = (name :> result) @@ @]
             /\ spawned' = IF e.ran
                           THEN spawned \cup {[tool |-> name, file |-> round.fileIdx,
                                               entry |-> e.cc.entry,
                                               argv |-> e.cc.usedArgs,
                                               inputs |-> e.cc.inputPaths,
                                               stdout |-> e.cc.stdoutFile,
                                               exit |-> run.exit]}
                           ELSE spawned
    /\ UNCHANGED pvars
    /\ UNCHANGED <<cli, ctx, cfg, mainPc, exitCode, job, proc, flags, save>>

\* a write that lands in the slot of every row instead of the tool's own
RecordSingle_EveryRow(results, name, i, result) ==
    [t \in DOMAIN results |-> [results[t] EXCEPT ![i] = result]]

\* part_003:188-190: one slot of the tool's row is written under the mutex
RecordSingle(results, name, i, result) == [results EXCEPT ![name][i] = result]

\* part_003:244-246: the tool's row is written under the mutex
RecordAll(results, name, row) == (name :> row) @@ results

\* a lock that is granted whoever holds it
Lock_Unguarded(mutex) == TRUE

\* sync.Mutex.Lock (part_003:188 and 244) returns once no task holds the
\* round's mutex
Lock(mutex) == mutex = ""

\* part_003:188 and 244: mut.Lock()
TaskLock(name) ==
    /\ mainPc = "await"
    /\ name \in DOMAIN round.taskPc
    /\ round.taskPc[name] = "record"
    /\ Lock(round.mutex)
    /\ round' = [round EXCEPT !.taskPc[name] = "locked", !.mutex = name]
    /\ UNCHANGED pvars
    /\ UNCHANGED <<cli, ctx, cfg, fs, mainPc, exitCode, job, proc, flags, save, spawned>>

\* part_003:189-190 and 245-246: the write into Results and mut.Unlock()
TaskRecord(name) ==
    /\ mainPc = "await"
    /\ name \in DOMAIN round.taskPc
    /\ round.taskPc[name] = "locked"
    /\ proc' = [proc EXCEPT !.Results =
                  IF round.kind = "batch"
                  THEN RecordAll(@, name, round.pending[name])
                  ELSE RecordSingle(@, name, round.fileIdx, round.pending[name])]
    /\ round' = [round EXCEPT !.taskPc[name] = "done", !.mutex = ""]
    /\ UNCHANGED pvars
    /\ UNCHANGED <<cli, ctx, cfg, fs, mainPc, exitCode, job, flags, save, spawned>>

\* a join that one finished task is enough for
Wait_ForOne(taskPc) == \E name \in DOMAIN taskPc : taskPc[name] = "done"

\* waitGroup.Wait (part_003:194 and 250): every task has called wg.Done
Wait(taskPc) == \A name \in DOMAIN taskPc : taskPc[name] = "done"

\* part_003:194-195 and 250-251 with main.go:274-278 and 295-299: every task
\* is done, done is sent and run receives it
ReceiveDone ==
    /\ mainPc = "await"
    /\ Wait(round.taskPc)
    /\ mainPc' = "round"
    /\ UNCHANGED pvars
    /\ UNCHANGED <<cli, ctx, cfg, fs, exitCode, job, proc, round, flags, save, spawned>>

(***************************************************************************)
(* Saving: SaveResultsAndReport, findBestToolSize, flushResult, moveFile,  *)
(* IsErrorFree, CleanUp and the exit status of run.                        *)
(***************************************************************************)
\* the orders in which a range over a Go map may yield the keys in S
Orders(S) ==
    {o \in [1..Cardinality(S) -> S] : \A i, j \in 1..Cardinality(S) : i # j => o[i] # o[j]}

\* part_003:368-370
HasError(r) == r.CommandError # "" \/ r.ReadFinalSizeError \/ r.DecodeErr \/ r.CreateError

\* a selection that also takes a result of the size it already holds
Improves_OrEqual(finalSize, bestSize) == finalSize <= bestSize

\* part_003:381: the test a result must pass to become the best so far
Improves(finalSize, bestSize) == finalSize < bestSize

\* part_003:372-388, the loop from position k of the iteration order on
RECURSIVE findBestLoop(_, _, _, _, _, _)
findBestLoop(results, order, fileIdx, k, bestSize, bestTool) ==
    IF k > Len(order) THEN bestTool
    ELSE LET result == results[order[k]][fileIdx]
         IN IF HasError(result)
            THEN findBestLoop(results, order, fileIdx, k + 1, bestSize, bestTool)
            ELSE IF Improves(result.FinalSize, bestSize)
            THEN findBestLoop(results, order, fileIdx, k + 1, result.FinalSize, order[k])
            ELSE findBestLoop(results, order, fileIdx, k + 1, bestSize, bestTool)

findBestToolSize(results, originalFileInfo, order, fileIdx) ==
    findBestLoop(results, order, fileIdx, 1, originalFileInfo[fileIdx].Size, "")

\* part_003:390-402, the loop from position k of the iteration order on
RECURSIVE findDecodeLoop(_, _, _, _, _, _)
findDecodeLoop(results, order, fileIdx, k, bestDecodeTime, bestTool) ==
    IF k > Len(order) THEN bestTool
    ELSE LET result == results[order[k]][fileIdx]
         IN IF result.DecodeAverage < bestDecodeTime
            THEN findDecodeLoop(results, order, fileIdx, k + 1, result.DecodeAverage, order[k])
            ELSE findDecodeLoop(results, order, fileIdx, k + 1, bestDecodeTime, bestTool)

findBestToolDecodeTime(results, originalFileInfo, order, fileIdx) ==
    findDecodeLoop(results, order, fileIdx, 1, originalFileInfo[fileIdx].Decode.Average, "")

\* a save that flushes the tool of the best decode time
FlushedTool_DecodeBest(bestToolSize, bestToolDecodeTime) == bestToolDecodeTime

\* part_003:325: the tool SaveResultsAndReport hands to flushResult
FlushedTool(bestToolSize, bestToolDecodeTime) == bestToolSize

\* what the host lets a move do: the rename succeeds, or it fails and the
\* copy that replaces it succeeds or fails, or the copy succeeds and the
\* removal of the source fails
MoveOutcomes == {"rename", "fallback", "fallbackFails", "removeFails"}

\* a move that removes the source whatever became of the copy
moveFile_RemovesAnyway(f, pathSrc, pathDest, how) ==
    IF ~Exists(f, pathSrc) THEN [fs |-> f, err |-> TRUE]
    ELSE IF how = "rename"
    THEN [fs |-> RemoveFile(WriteFile(f, pathDest, f[pathSrc]), pathSrc), err |-> FALSE]
    ELSE LET c == copyFileTo(f, pathSrc, pathDest, f[pathSrc].by,
                             IF how = "fallbackFails" THEN "copy" ELSE "ok")
         IN [fs |-> RemoveFile(c.fs, pathSrc), err |-> c.err \/ how = "removeFails"]

\* part_003:867-884
moveFile(f, pathSrc, pathDest, how) ==
    IF ~Exists(f, pathSrc) THEN [fs |-> f, err |-> TRUE]
    ELSE IF how = "rename"
    THEN [fs |-> RemoveFile(WriteFile(f, pathDest, f[pathSrc]), pathSrc), err |-> FALSE]
    ELSE LET c == copyFileTo(f, pathSrc, pathDest, f[pathSrc].by,
                             IF how = "fallbackFails" THEN "copy" ELSE "ok")
         IN IF c.err THEN c
            ELSE IF how = "removeFails" THEN [fs |-> c.fs, err |-> TRUE]
            ELSE [fs |-> RemoveFile(c.fs, pathSrc), err |-> FALSE]

\* the outcomes explored for the moves of a run; a removal that fails is
\* explored for moveFile on its own
SaveMoves == MoveOutcomes \ {"removeFails"}

\* part_003:412-426, the loop from position k of the iteration order on
RECURSIVE keepAllLoop(_, _, _, _, _, _, _)
keepAllLoop(f, tempFiles, fileInfo, fileIdx, order, hows, k) ==
    IF k > Len(order) THEN [fs |-> f, ok |-> TRUE]
    ELSE LET toolName == order[k]
             m == moveFile(f, tempFiles[toolName][fileIdx].Path,
                           compressedFilePath(fileInfo.Directory, fileInfo.BaseName,
                                              toolName, fileInfo.Extension),
                           hows[toolName])
             rest == keepAllLoop(m.fs, tempFiles, fileInfo, fileIdx, order, hows, k + 1)
         IN [fs |-> rest.fs, ok |-> rest.ok /\ ~m.err]

\* a flush that treats the dry policy as keep-best
flushResult_DryMoves(f, tempFiles, originalFileInfo, fromTool, fileIdx, writeMode, order, hows) ==
    LET fileInfo == originalFileInfo[fileIdx]
    IN IF writeMode = KeepAll
       THEN keepAllLoop(f, tempFiles, fileInfo, fileIdx, order, hows, 1)
       ELSE IF fromTool = "" THEN [fs |-> f, ok |-> TRUE]
       ELSE LET m == moveFile(f, tempFiles[fromTool][fileIdx].Path,
                              IF writeMode = Overwrite
                              THEN fileInfo.Path
                              ELSE compressedFilePath(fileInfo.Directory, fileInfo.BaseName,
                                                      fromTool, fileInfo.Extension),
                              hows[fromTool])
            IN [fs |-> m.fs, ok |-> ~m.err]

\* part_003:404-459
flushResult(f, tempFiles, originalFileInfo, fromTool, fileIdx, writeMode, order, hows) ==
    LET fileInfo == originalFileInfo[fileIdx]
    IN IF writeMode = None THEN [fs |-> f, ok |-> TRUE]
       ELSE IF writeMode = KeepAll
       THEN keepAllLoop(f, tempFiles, fileInfo, fileIdx, order, hows, 1)
       ELSE IF fromTool = "" THEN [fs |-> f, ok |-> TRUE]
       ELSE LET bestTempPath == tempFiles[fromTool][fileIdx].Path
                m == moveFile(f, bestTempPath,
                              IF writeMode = KeepBest
                              THEN compressedFilePath(fileInfo.Directory, fileInfo.BaseName,
                                                      fromTool, fileInfo.Extension)
                              ELSE fileInfo.Path,
                              hows[fromTool])
            IN [fs |-> m.fs, ok |-> ~m.err]

\* part_003:344-354
IsErrorFree(results) ==
    \A t \in DOMAIN results : \A i \in 1..Len(results[t]) : ~HasError(results[t][i])

\* part_003:336-342
CleanUp(f, tempFiles) ==
    LET paths == UNION {{tempFiles[t][i].Path : i \in 1..Len(tempFiles[t])} :
                          t \in DOMAIN tempFiles}
    IN [q \in DOMAIN f \ paths |-> f[q]]

\* SaveResultsAndReport, one pass of its loop (part_003:320-331)
SaveFile ==
    /\ mainPc = "save"
    /\ save.next <= Len(proc.OriginalFileInfo)
    /\ \E order \in Orders(DOMAIN proc.Results), hows \in [DOMAIN proc.Results -> SaveMoves] :
          LET bestToolSize == findBestToolSize(proc.Results, proc.OriginalFileInfo, order,
                                               save.next)
              bestToolDecodeTime == findBestToolDecodeTime(proc.Results,
                                                           proc.OriginalFileInfo, order,
                                                           save.next)
              flushed == flushResult(fs, proc.TempFiles, proc.OriginalFileInfo,
                                     FlushedTool(bestToolSize, bestToolDecodeTime),
                                     save.next, save.writeMode, order, hows)
          IN /\ fs' = flushed.fs
             /\ save' = [save EXCEPT !.next = @ + 1,
                                     !.best = Append(@, bestToolSize),
                                     !.bestDecode = Append(@, bestToolDecodeTime),
                                     !.allOk = @ /\ flushed.ok]
    /\ UNCHANGED pvars
    /\ UNCHANGED <<cli, ctx, cfg, mainPc, exitCode, job, proc, round, flags, spawned>>

\* main.go:312-313, the return of run with the deferred CleanUp of
\* main.go:256, and the exit of main
SaveDone ==
    /\ mainPc = "save"
    /\ save.next > Len(proc.OriginalFileInfo)
    /\ LET hasErrors == flags.hasErrors \/ ~save.allOk \/ ~IsErrorFree(proc.Results)
       IN /\ flags' = [flags EXCEPT !.hasErrors = hasErrors]
          /\ exitCode' = ExitStatus(flags.hasTools, flags.isRan, hasErrors)
    /\ fs' = CleanUp(fs, proc.TempFiles)
    /\ mainPc' = "exit"
    /\ UNCHANGED pvars
    /\ UNCHANGED <<cli, ctx, cfg, job, proc, round, save, spawned>>

\* what the host lets a decode benchmark measure: an average time, or an
\* error of reading or decoding the file
DecodeOutcomes == [avg : 1..MaxDecode, err : BOOLEAN]

\* part_004:47-83
benchDecodeTime(f, path, d) ==
    IF ~Exists(f, path) \/ d.err THEN [Average |-> 0, Err |-> TRUE]
    ELSE [Average |-> d.avg, Err |-> FALSE]

\* part_003:278-301, the benchmark of one result
benchResult(f, result, tempFile, fileDecode, d) ==
    IF result.nil THEN result
    ELSE IF tempFile.CreateError
    THEN [result EXCEPT !.DecodeAverage = fileDecode.Average, !.DecodeErr = TRUE]
    ELSE LET b == benchDecodeTime(f, tempFile.Path, d)
         IN [result EXCEPT !.DecodeAverage = b.Average, !.DecodeErr = b.Err]

\* BenchmarkDecodeTime (part_003:257-311) and the select that awaits it
\* (main.go:304-310)
BenchmarkDecodeTime ==
    /\ mainPc = "decode"
    /\ LET n == Len(proc.OriginalFileInfo)
       IN \E fd \in [1..n -> DecodeOutcomes],
             rd \in [DOMAIN proc.Results -> [1..n -> DecodeOutcomes]] :
             LET files == [i \in 1..n |->
                            [proc.OriginalFileInfo[i] EXCEPT
                               !.Decode = benchDecodeTime(fs, proc.OriginalFileInfo[i].Path,
                                                          fd[i])]]
                 results == [t \in DOMAIN proc.Results |->
                              [i \in 1..n |->
                                 benchResult(fs, proc.Results[t][i], proc.TempFiles[t][i],
                                             files[i].Decode, rd[t][i])]]
             IN proc' = [proc EXCEPT !.OriginalFileInfo = files, !.Results = results]
    /\ mainPc' = "save"
    /\ \E w \in WriteModes : save' = [save EXCEPT !.writeMode = w]
    /\ UNCHANGED pvars
    /\ UNCHANGED <<cli, ctx, cfg, fs, exitCode, job, round, flags, spawned>>

\* a signal reaches the context of main.go:244 while the job loop runs; the
\* signal is explored for the runs with at most SignalTools available tools
Signal ==
    /\ mainPc \in {"round", "prepare", "await"}
    /\ Cardinality(cfg.toolAvailability) <= SignalTools
    /\ ~ctx.done
    /\ ctx' = [done |-> TRUE, inFlight |-> mainPc # "round"]
    /\ UNCHANGED pvars
    /\ UNCHANGED <<cli, cfg, fs, mainPc, exitCode, job, proc, round, flags, save, spawned>>

\* the second case of the select (main.go:276-277, 297-298, 307-308): run returns
\* the Interrupted error, its deferred CleanUp runs, the tasks are left behind
Interrupt ==
    /\ mainPc \in {"await", "decode"}
    /\ ctx.done
    /\ exitCode' = Interrupted
    /\ fs' = CleanUp(fs, proc.TempFiles)
    /\ mainPc' = "exit"
    /\ UNCHANGED pvars
    /\ UNCHANGED <<cli, ctx, cfg, job, proc, round, flags, save, spawned>>

\* a tool that was running when run returned creates its output file before
\* the kill reaches it (a capture file is written through the descriptor
\* run opened, which creates no path)
LateWrite(name) ==
    /\ mainPc = "exit"
    /\ exitCode = Interrupted
    /\ name \in DOMAIN round.taskPc
    /\ round.taskPc[name] = "run"
    /\ round.commands[name].isAvailable
    /\ round.commands[name].tool.OutputMode # Stdout
    /\ Len(round.commands[name].inputPaths) > 0
    /\ \E run \in Killed(round.commands[name]) :
          fs' = RunTool(round.commands[name], fs, run)
    /\ round' = [round EXCEPT !.taskPc[name] = "killed"]
    /\ UNCHANGED pvars
    /\ UNCHANGED <<cli, ctx, cfg, mainPc, exitCode, job, proc, flags, save, spawned>>

\* the nil dereference of part_003:641 unwinds run: the deferred CleanUp
\* runs and the program dies
Crash ==
    /\ mainPc = "panic"
    /\ fs' = CleanUp(fs, proc.TempFiles)
    /\ mainPc' = "crashed"
    /\ UNCHANGED pvars
    /\ UNCHANGED <<cli, ctx, cfg, exitCode, job, proc, round, flags, save, spawned>>

(***************************************************************************)
(* Specifications.  SpecResolve runs the resolver on every bounded         *)
(* argument map; Spec is one run of the orchestrator.                      *)
(***************************************************************************)
RIdle ==
    /\ rArgs = EmptyMap
    /\ rStart = <<>>
    /\ rOut = NoOut

\* the files a move may find at its source and at its destination
MoveContents == [size : 0..MaxSize, of : {1}, by : {"", "t1"}]
MoveSource == compressedFilePath(TempDir, "a", "t1", ".e")
MoveDestinations == {compressedFilePath("in", "a", "t1", ".e"), JoinPath("in", "a.e")}
MoveFileSystems ==
    UNION {[S -> MoveContents] : S \in SUBSET ({MoveSource} \cup MoveDestinations)}

NoMove == [before |-> EmptyMap, src |-> "", dest |-> "", how |-> "", after |-> EmptyMap,
           err |-> FALSE, done |-> TRUE]

MIdle == mv = NoMove

MInit ==
    mv \in [before : MoveFileSystems, src : {MoveSource}, dest : MoveDestinations,
            how : MoveOutcomes, after : {EmptyMap}, err : {FALSE}, done : {FALSE}]

\* one call of moveFile
Move ==
    /\ ~mv.done
    /\ LET m == moveFile(mv.before, mv.src, mv.dest, mv.how)
       IN mv' = [mv EXCEPT !.after = m.fs, !.err = m.err, !.done = TRUE]
    /\ UNCHANGED <<rArgs, rStart, rOut, probe, query, sched, bench>>

\* the configurations and hosts cacheAvailability is run on: two tools, of
\* any platforms; a wrapper table of the host; the names the search path
\* resolves and the files of the working directory
ProbePlatforms == {<<"linux">>, <<"windows">>, <<"linux", "windows">>, <<"darwin", "windows">>}
ProbeTools ==
    {("t1" :> [Command |-> "t1", Platform |-> p1]) @@ ("t2" :> [Command |-> c2, Platform |-> p2]) :
        p1 \in ProbePlatforms, p2 \in ProbePlatforms, c2 \in {"t2", "t3.exe"}}
ProbeWrappers ==
    {EmptyMap, "windows" :> "wine", ("darwin" :> "") @@ ("windows" :> "wine"),
     "darwin" :> "dw"}
ProbeHosts ==
    [onPath : SUBSET {"t1", "wine", "dw"},
     cwd : SUBSET {"./t1", "./t2", "./t2.exe", "./t3.exe.exe"}]

NoProbe == [tools |-> EmptyMap, wrappers |-> EmptyMap,
            host |-> [onPath |-> {}, cwd |-> {}], availability |-> {}, done |-> TRUE]

PIdle == probe = NoProbe

PInit ==
    probe \in [tools : ProbeTools, wrappers : ProbeWrappers, host : ProbeHosts,
               availability : {{}}, done : {FALSE}]

\* one call of cacheAvailability
CacheAvailability ==
    /\ ~probe.done
    /\ probe' = [probe EXCEPT
                   !.availability = cacheAvailability(probe.tools, probe.wrappers, probe.host),
                   !.done = TRUE]
    /\ UNCHANGED <<rArgs, rStart, rOut, mv, query, sched, bench>>

\* config.go:191-199: the mappings after the presets of order[i..] were
\* ranged over, each preset's own name first, then its shorthands in turn
RECURSIVE putShorthands(_, _, _, _)
putShorthands(mappings, shorthands, presetName, i) ==
    IF i > Len(shorthands) THEN mappings
    ELSE putShorthands((shorthands[i] :> presetName) @@ mappings, shorthands, presetName, i + 1)

RECURSIVE buildMappings(_, _, _, _)
buildMappings(mappings, presets, order, i) ==
    IF i > Len(order) THEN mappings
    ELSE buildMappings(putShorthands((order[i] :> order[i]) @@ mappings,
                                     presets[order[i]].Shorthands, order[i], 1),
                       presets, order, i + 1)

\* config.QueryPreset (config.go:188-206); order is the order in which the
\* range yields the presets
QueryPreset(presets, name, order) ==
    LET mappings == buildMappings(EmptyMap, presets, order, 1)
    IN IF name \notin DOMAIN mappings THEN [preset |-> "", isShorthand |-> FALSE]
       ELSE [preset |-> mappings[name], isShorthand |-> mappings[name] # name]

\* a validation that lists the shorthands without the preset's own name
presetNames_ShorthandsOnly(presets, presetName) == presets[presetName].Shorthands

\* config.go:402: append(presetData.Shorthands, presetName)
presetNames(presets, presetName) == Append(presets[presetName].Shorthands, presetName)

\* config.go:399-402: the uses of a name: the preset and the place in its list
nameUses(presets) ==
    UNION {{<<n, i>> : i \in 1..Len(presetNames(presets, n))} : n \in DOMAIN presets}

\* config.go:407-411: the presets shorthandList holds for a name, one entry
\* per use
shorthandList(presets, shorthand) ==
    {u \in nameUses(presets) : presetNames(presets, u[1])[u[2]] = shorthand}

\* Config.Validate (config.go:397-443), the errors about preset names
validatePresets(presets) ==
    {[err |-> "presetShorthandBlank", at |-> u[1]] :
        u \in {v \in nameUses(presets) : presetNames(presets, v[1])[v[2]] = ""}}
    \cup
    {[err |-> "presetShorthandConflict", at |-> u[1]] :
        u \in {v \in nameUses(presets) :
                 Cardinality(shorthandList(presets, presetNames(presets, v[1])[v[2]])) > 1}}

\* the presets QueryPreset is asked about: up to two presets, of up to two
\* shorthands each, and the names asked for
PresetNames == {"default", "max"}
ShorthandNames == {"", "def", "default", "max"}
ShorthandLists == {<<>>} \cup {<<a>> : a \in ShorthandNames}
                    \cup {<<a, b>> : a \in ShorthandNames, b \in ShorthandNames}
PresetMaps == UNION {[S -> [Shorthands : ShorthandLists]] : S \in SUBSET PresetNames}
QueriedNames == {"default", "max", "def", "", "none"}
MaxCalls == 2

NoQuery == [presets |-> EmptyMap, name |-> "", calls |-> <<>>, done |-> TRUE]

QIdle == query = NoQuery

QInit == query \in [presets : PresetMaps, name : QueriedNames, calls : {<<>>}, done : {FALSE}]

\* one call of QueryPreset (main.go:187, config.go:362)
Query ==
    /\ ~query.done
    /\ \E order \in Orders(DOMAIN query.presets) :
          query' = [query EXCEPT
                      !.calls = Append(@, QueryPreset(query.presets, query.name, order)),
                      !.done = Len(query.calls) + 1 >= MaxCalls]
    /\ UNCHANGED <<rArgs, rStart, rOut, mv, probe, sched, bench>>

\* the configurations SetTools is run on: each of two tools is undefined or
\* has any output mode, formats and presets; any availability set; up to
\* two selected names, an undefined one among them
SchedToolConfigs ==
    [Command : {"c"}, Platform : {<<"linux">>},
     OutputMode : {BatchOverwrite, InputOutput, Stdout},
     SupportedFormats : {<<>>, <<Mime>>, <<"image/jpeg", Mime>>},
     Arguments : {EmptyMap, UsedPreset :> <<"x">>}]
SchedTools == UNION {[S -> SchedToolConfigs] : S \in SUBSET Tools}
SchedNames == Tools \cup {"t9"}
SchedSelections ==
    {<<>>} \cup {<<a>> : a \in SchedNames} \cup {<<a, b>> : a \in SchedNames, b \in SchedNames}

NoJob == [BatchableTools |-> EmptyMap, PerFileTools |-> EmptyMap]

NoSched == [tools |-> EmptyMap, availability |-> {}, toolNames |-> <<>>, perFile |-> FALSE,
            of |-> NoJob, done |-> TRUE]

SIdle == sched = NoSched

SInit ==
    sched \in [tools : SchedTools, availability : SUBSET Tools, toolNames : SchedSelections,
               perFile : BOOLEAN, of : {NoJob}, done : {FALSE}]

\* main.go:220-229: the tools of one group of files are set
ScheduleTools ==
    /\ ~sched.done
    /\ LET set == SetTools(sched.tools, sched.availability, UsedPreset, sched.toolNames, Mime)
       IN sched' = [sched EXCEPT
                      !.of = IF sched.perFile THEN ForcePerFileMode(set) ELSE set,
                      !.done = TRUE]
    /\ UNCHANGED <<rArgs, rStart, rOut, mv, probe, query, bench>>

(***************************************************************************)
(* benchDecodeTime (part_004:47-84), step by step.  Time is counted in     *)
(* ticks of the clock; a decode takes at least one.                        *)
(***************************************************************************)
MaxMinTime == 5
MaxTrialTime == 3

\* what the file turns out to be: unreadable (line 48), of a type without a
\* decoder (59), not decodable (65), or a valid image
DecodeInputs == {"unreadable", "unsupported", "corrupt", "valid"}

\* the zero value of DecodeTimeBench (part_004:18-24)
ZeroBench == [Total |-> 0, Average |-> 0, Trials |-> 0, Err |-> FALSE]

NoBench == [input |-> "valid", minTime |-> 0, pc |-> "idle", totalTime |-> 0, trials |-> 0,
            result |-> ZeroBench]

BIdle == bench = NoBench

\* --dt-measure is any duration (main.go:354); run hands it on unchecked
\* (main.go:306)
BInit ==
    bench \in [input : DecodeInputs, minTime : 0..MaxMinTime, pc : {"call"}, totalTime : {0},
               trials : {0}, result : {ZeroBench}]

\* part_004:48-71: the file is read, its type detected, and decoded once
BenchValidate ==
    /\ bench.pc = "call"
    /\ bench' = IF bench.input \in {"unreadable", "corrupt"}
                THEN [bench EXCEPT !.pc = "returned", !.result = [ZeroBench EXCEPT !.Err = TRUE]]
                ELSE IF bench.input = "unsupported"
                THEN [bench EXCEPT !.pc = "returned", !.result = ZeroBench]
                ELSE [bench EXCEPT !.pc = "loop"]
    /\ UNCHANGED <<rArgs, rStart, rOut, mv, probe, query, sched>>
    /\ UNCHANGED ovars

\* part_004:74-81: one timed trial
BenchTrial ==
    /\ bench.pc = "loop"
    /\ bench.totalTime < bench.minTime
    /\ \E d \in 1..MaxTrialTime :
          bench' = [bench EXCEPT !.totalTime = @ + d, !.trials = @ + 1]
    /\ UNCHANGED <<rArgs, rStart, rOut, mv, probe, query, sched>>
    /\ UNCHANGED ovars

\* part_004:74 and 83: the loop is left and the average computed; the
\* integer division panics on a zero divisor
BenchReturn ==
    /\ bench.pc = "loop"
    /\ ~(bench.totalTime < bench.minTime)
    /\ bench' = IF bench.trials = 0
                THEN [bench EXCEPT !.pc = "panic"]
                ELSE [bench EXCEPT !.pc = "returned",
                                   !.result = [Total |-> bench.totalTime,
                                               Average |-> bench.totalTime \div bench.trials,
                                               Trials |-> bench.trials, Err |-> FALSE]]
    /\ UNCHANGED <<rArgs, rStart, rOut, mv, probe, query, sched>>
    /\ UNCHANGED ovars

OIdle ==
    /\ cli = [PerFile |-> FALSE, SkipValidation |-> FALSE, DecodeTime |-> FALSE,
              Paths |-> DistinctPaths]
    /\ ctx = Live
    /\ cfg = [Arguments |-> EmptyMap, OutputMode |-> EmptyMap, Wrappers |-> EmptyMap,
              toolAvailability |-> {}]
    /\ fs = EmptyMap
    /\ mainPc = "idle"
    /\ exitCode = Running
    /\ job = [BatchableTools |-> EmptyMap, PerFileTools |-> EmptyMap]
    /\ proc = [OriginalFileInfo |-> <<>>, TempFiles |-> EmptyMap, Results |-> EmptyMap]
    /\ round = NoRound
    /\ flags = [hasTools |-> FALSE, isRan |-> FALSE, hasErrors |-> FALSE]
    /\ save = [writeMode |-> "", next |-> 1, best |-> <<>>, bestDecode |-> <<>>, allOk |-> TRUE]
    /\ spawned = {}

RNext == Resolve /\ UNCHANGED ovars /\ UNCHANGED <<mv, probe, query, sched, bench>>

InitResolve == RInit /\ OIdle /\ MIdle /\ PIdle /\ QIdle /\ SIdle /\ BIdle

MNext == Move /\ UNCHANGED ovars

InitMove == MInit /\ RIdle /\ OIdle /\ PIdle /\ QIdle /\ SIdle /\ BIdle

PNext == CacheAvailability /\ UNCHANGED ovars

InitProbe == PInit /\ RIdle /\ OIdle /\ MIdle /\ QIdle /\ SIdle /\ BIdle

SpecProbe == InitProbe /\ [][PNext]_vars

QNext == Query /\ UNCHANGED ovars

InitQuery == QInit /\ RIdle /\ OIdle /\ MIdle /\ PIdle /\ SIdle /\ BIdle

SpecQuery == InitQuery /\ [][QNext]_vars

SNext == ScheduleTools /\ UNCHANGED ovars

InitSchedule == SInit /\ RIdle /\ OIdle /\ MIdle /\ PIdle /\ QIdle /\ BIdle

SpecSchedule == InitSchedule /\ [][SNext]_vars

SpecMove == InitMove /\ [][MNext]_vars

SpecResolve == InitResolve /\ [][RNext]_vars

BNext ==
    \/ BenchValidate
    \/ BenchTrial
    \/ BenchReturn

InitBench == BInit /\ RIdle /\ OIdle /\ MIdle /\ PIdle /\ QIdle /\ SIdle

SpecBench == InitBench /\ [][BNext]_vars

Next ==
    \/ Validate
    \/ Schedule
    \/ StartRound
    \/ \E name \in Tools : PrepareBatch(name)
    \/ \E name \in Tools : PrepareSingle(name)
    \/ Launch
    \/ \E name \in Tools : TaskExecute(name)
    \/ \E name \in Tools : TaskLock(name)
    \/ \E name \in Tools : TaskRecord(name)
    \/ ReceiveDone
    \/ BenchmarkDecodeTime
    \/ Signal
    \/ Interrupt
    \/ \E name \in Tools : LateWrite(name)
    \/ SaveFile
    \/ SaveDone
    \/ Crash

Init == OInit /\ RIdle /\ MIdle /\ PIdle /\ QIdle /\ SIdle /\ BIdle

Spec == Init /\ [][Next]_vars

(***************************************************************************)
(* Reference semantics of an argument map, independent of the resolver's   *)
(* bookkeeping: the reference graph, textual substitution, and the         *)
(* expansion tree whose branches end at undefined and at revisited names.  *)
(***************************************************************************)
RefNames(args, n) ==
    IF n \in DOMAIN args
    THEN {CutPrefix(args[n][i], ReferencePrefix).after :
            i \in {j \in 1..Len(args[n]) : HasPrefix(args[n][j], ReferencePrefix)}}
    ELSE {}

RECURSIVE Closure(_, _)
Closure(args, S) ==
    LET T == S \cup UNION {RefNames(args, n) : n \in S}
    IN IF T = S THEN S ELSE Closure(args, T)

Reachable(args, start) == Closure(args, {start})

AcyclicDefined(args, start) ==
    /\ Reachable(args, start) \subseteq DOMAIN args
    /\ \A n \in Reachable(args, start) : n \notin Closure(args, RefNames(args, n))

RECURSIVE Expand(_, _)
RECURSIVE ExpandList(_, _)
ExpandList(args, list) ==
    IF list = <<>> THEN <<>>
    ELSE (IF HasPrefix(Head(list), ReferencePrefix)
          THEN Expand(args, CutPrefix(Head(list), ReferencePrefix).after)
          ELSE <<Head(list)>>) \o ExpandList(args, Tail(list))

Expand(args, n) == ExpandList(args, args[n])

RECURSIVE TreeOf(_, _, _)
RECURSIVE TreeOfList(_, _, _)
TreeOfList(args, list, path) ==
    IF list = <<>> THEN [result |-> <<>>, fails |-> <<>>]
    ELSE LET first == IF HasPrefix(Head(list), ReferencePrefix)
                      THEN TreeOf(args, CutPrefix(Head(list), ReferencePrefix).after, path)
                      ELSE [result |-> <<Head(list)>>, fails |-> <<>>]
             rest == TreeOfList(args, Tail(list), path)
         IN [result |-> first.result \o rest.result, fails |-> first.fails \o rest.fails]

TreeOf(args, n, ancestors) ==
    LET here == Append(ancestors, n)
    IN IF n \notin DOMAIN args
       THEN [result |-> <<>>, fails |-> <<[kind |-> "unknown", path |-> here]>>]
       ELSE IF Contains(ancestors, n)
       THEN [result |-> <<>>, fails |-> <<[kind |-> "cyclic", path |-> here]>>]
       ELSE TreeOfList(args, args[n], here)

Last(seq) == seq[Len(seq)]
Front(seq) == SubSeq(seq, 1, Len(seq) - 1)

\* what the resolver reported, as (kind, real call chain) pairs
Reported == [i \in 1..Len(rOut.errs) |-> [kind |-> rOut.errs[i].kind, path |-> rOut.paths[i]]]

\* C1: on an acyclic, fully defined reference graph the resolver returns no
\* error and exactly the left-to-right textual substitution of every
\* reference, a list referenced k times appearing k times.
C1_AcyclicSubstitution ==
    (Resolved /\ AcyclicDefined(rArgs, rStart)) =>
        /\ ~rOut.overflow
        /\ rOut.errs = <<>>
        /\ rOut.result = Expand(rArgs, rStart)

C1_Witness ==
    /\ Resolved
    /\ AcyclicDefined(rArgs, rStart)
    /\ Len(rOut.result) >= 2
    /\ \E i, j \in 1..Len(rArgs[rStart]) :
          /\ i < j
          /\ rArgs[rStart][i] = rArgs[rStart][j]
          /\ HasPrefix(rArgs[rStart][i], ReferencePrefix)

\* C2: resolution terminates on every argument map and every starting
\* name, the recursion never deeper than the number of defined lists plus one.
C2_Terminates ==
    Resolved =>
        /\ ~rOut.overflow
        /\ rOut.depth <= Cardinality(DOMAIN rArgs) + 1

\* C3: a reference to a name already on the expansion path is reported as a
\* cycle error whose trace is the path from the starting list, in order,
\* followed by the repeated name, joined by " -> ".
C3_CycleTraceIsPath ==
    Returned =>
        /\ \A i \in 1..Len(rOut.errs) :
              rOut.errs[i].kind = "cyclic" =>
                  rOut.errs[i].trace = Join(rOut.paths[i], TraceSep)
        /\ SelectSeq(Reported, LAMBDA e : e.kind = "cyclic")
             = SelectSeq(TreeOf(rArgs, rStart, <<>>).fails, LAMBDA e : e.kind = "cyclic")

\* C4 as stated: an unknown-reference error cites the tool, the missing
\* name and every list of the chain from the starting list down to the list
\* holding the reference.
C4_UnknownCitesChain ==
    Returned =>
        \A i \in 1..Len(rOut.errs) :
            rOut.errs[i].kind = "unknown" =>
                /\ rOut.errs[i].nameAs = ToolNameAs
                /\ rOut.errs[i].preset = Last(rOut.paths[i])
                /\ \A k \in 1..Len(rOut.paths[i]) - 1 : rOut.paths[i][k] = rOut.errs[i].at

\* C4 amended: an unknown-reference error cites the tool, the missing name
\* and only the list that directly holds the reference (the empty string
\* when the starting list itself is undefined).
C4_UnknownCitesHolder ==
    Returned =>
        \A i \in 1..Len(rOut.errs) :
            rOut.errs[i].kind = "unknown" =>
                /\ rOut.errs[i].nameAs = ToolNameAs
                /\ rOut.errs[i].preset = Last(rOut.paths[i])
                /\ rOut.errs[i].at = IF Len(rOut.paths[i]) = 1 THEN <<>>
                                     ELSE Last(Front(rOut.paths[i]))

C4_Witness ==
    /\ Returned
    /\ \E i \in 1..Len(rOut.errs) :
          /\ rOut.errs[i].kind = "unknown"
          /\ Len(rOut.paths[i]) >= 3
          /\ rOut.errs[i].at = rOut.paths[i][2]
          /\ rOut.paths[i][1] # rOut.paths[i][2]

\* C5: one pass returns the error of every failing reference occurrence of
\* the expansion tree, left to right, together with the tokens of the
\* siblings of a failing reference.
C5_AllErrorsCollected ==
    Resolved =>
        /\ ~rOut.overflow
        /\ Reported = TreeOf(rArgs, rStart, <<>>).fails
        /\ rOut.result = TreeOf(rArgs, rStart, <<>>).result

(***************************************************************************)
(* Properties of the orchestrator.                                         *)
(***************************************************************************)
\* the content the user's file i had when the run began
Pristine(path) == Exists(fs, path) /\ fs[path].by = "" /\ fs[path].size = MaxSize

\* the files SaveResultsAndReport is through with
Saved == 1..Len(save.best)

ErrorFree(t, k) == ~HasError(proc.Results[t][k])
Candidates(k) ==
    {t \in DOMAIN proc.Results :
        ErrorFree(t, k) /\ proc.Results[t][k].FinalSize < proc.OriginalFileInfo[k].Size}

\* C6: the arguments of every spawned tool are the resolver's output for the
\* tool and the preset in use, and no argument is the literal '@name' of a
\* list of the tool.
C6_ArgsAreResolved ==
    \A s \in spawned :
        LET resolved == StrAll(ResolveReferencesForPreset(cfg.Arguments, UsedPreset,
                                                          s.tool).result)
            lead == IF s.entry = ExecutablePath(s.tool) THEN 0 ELSE 1
        IN /\ SubSeq(s.argv, lead + 1, Len(s.argv) - Len(s.inputs)) = resolved
           /\ \A i \in 1..Len(s.argv), n \in DOMAIN cfg.Arguments :
                 s.argv[i] # Str(ReferencePrefix \o n)

\* C7: the winner of a file is a tool with an error-free result whose final
\* size is the least of the error-free results and strictly below the
\* original size; without such a result the winner is none and, under
\* keep-best and overwrite, the original file is left as it was.
C7_WinnerIsStrictMinimum ==
    \A k \in Saved :
        LET w == save.best[k]
        IN /\ w # "" =>
                /\ w \in Candidates(k)
                /\ \A t \in DOMAIN proc.Results :
                      ErrorFree(t, k) =>
                          proc.Results[w][k].FinalSize <= proc.Results[t][k].FinalSize
           /\ w = "" <=> Candidates(k) = {}
           /\ (w = "" /\ save.writeMode \in {KeepBest, Overwrite}) =>
                 Pristine(proc.OriginalFileInfo[k].Path)

C7_Witness ==
    /\ mainPc = "exit"
    /\ \E k, j \in Saved :
          /\ save.best[k] # ""
          /\ \E t, u \in Candidates(k) :
                proc.Results[t][k].FinalSize < proc.Results[u][k].FinalSize
          /\ save.best[j] = ""
          /\ save.writeMode = Overwrite
          /\ \E t \in DOMAIN proc.Results :
                /\ ErrorFree(t, j)
                /\ proc.Results[t][j].FinalSize = proc.OriginalFileInfo[j].Size

\* the results a spawned run has led to: the task's pending one and, once
\* written, the one in the table
ResultsOf(s) ==
    LET files == IF s.file = 0 THEN 1..Len(proc.OriginalFileInfo) ELSE {s.file}
    IN [k \in files |->
          {r \in (IF s.tool \in DOMAIN proc.Results THEN {proc.Results[s.tool][k]} ELSE {})
                 \cup (IF s.tool \in DOMAIN round.pending /\ round.fileIdx = s.file
                       THEN {IF s.file = 0 THEN round.pending[s.tool][k]
                             ELSE round.pending[s.tool]}
                       ELSE {}) : ~r.nil}]

\* C8: a run that exits non-zero leaves an error on the result of its
\* (file, tool) pair, that result is never the winner, and where no other
\* result is smaller the original file stays as it was under every write
\* policy.
C8_FailedRunNeverWins ==
    \A s \in spawned :
        s.exit # 0 =>
            \A k \in DOMAIN ResultsOf(s) :
                /\ \A r \in ResultsOf(s)[k] : r.CommandError # ""
                /\ k \in Saved =>
                      /\ save.best[k] # s.tool
                      /\ save.best[k] = "" => Pristine(proc.OriginalFileInfo[k].Path)

C8_Witness ==
    /\ mainPc = "exit"
    /\ save.writeMode = Overwrite
    /\ \E s \in spawned :
          /\ s.exit # 0
          /\ s.file # 0
          /\ s.file \in Saved
          /\ save.best[s.file] = ""
          /\ proc.Results[s.tool][s.file].FinalSize
                < proc.OriginalFileInfo[s.file].Size
          /\ proc.Results[s.tool][s.file].CommandError = "exit"

\* the pair's own failure, as the result must show it
ShowsFailure(cc, r, tempFile) ==
    /\ ~cc.isAvailable => r.CommandError = "notfound"
    /\ (cc.isAvailable /\ Len(cc.inputPaths) = 0) => r.CommandError = "noinput"
    /\ cc.commandError = "exit" => r.CommandError = "exit"
    /\ (cc.isAvailable /\ ~tempFile.CreateError /\ ~Exists(fs, tempFile.Path)) =>
          r.ReadFinalSizeError

\* C9: a missing executable, a missing input, a non-zero exit or an
\* unreadable artifact of one (file, tool) pair never ends the round: run
\* receives the round's done, the failure is on that pair's result, and each
\* sibling of the round has its own result in the table.
C9_ErrorsStayLocal ==
    /\ mainPc \notin {"panic", "crashed"}
    /\ (mainPc = "round" /\ round.kind = "single") =>
          \A t \in DOMAIN round.commands :
              /\ ~proc.Results[t][round.fileIdx].nil
              /\ ShowsFailure(round.commands[t], proc.Results[t][round.fileIdx],
                              proc.TempFiles[t][round.fileIdx])

\* C10: when run has received the done of a round, the table holds one
\* result, the task's own, for each tool of the round and the round's file
\* (each file, in a batch round), rows for the scheduled tools only, and no
\* result for a file whose round has not run.
C10_OneResultPerTool ==
    (mainPc = "round" /\ round.kind # "none") =>
        /\ DOMAIN round.commands \subseteq DOMAIN proc.Results
        /\ DOMAIN proc.Results \subseteq DOMAIN job.BatchableTools \cup DOMAIN job.PerFileTools
        /\ \A t \in DOMAIN round.commands :
              /\ Len(proc.Results[t]) = Len(proc.OriginalFileInfo)
              /\ IF round.kind = "batch"
                 THEN /\ proc.Results[t] = round.pending[t]
                      /\ \A k \in 1..Len(proc.Results[t]) : ~proc.Results[t][k].nil
                 ELSE /\ proc.Results[t][round.fileIdx] = round.pending[t]
                      /\ \A k \in 1..Len(proc.Results[t]) :
                            proc.Results[t][k].nil <=> k > round.fileIdx

C10_Witness ==
    /\ mainPc = "round"
    /\ round.kind = "single"
    /\ round.fileIdx = NumFiles
    /\ Cardinality(DOMAIN round.commands) = 2
    /\ \E t, u \in DOMAIN round.commands :
          proc.Results[t][round.fileIdx] # proc.Results[u][round.fileIdx]

(***************************************************************************)
(* Cancellation.                                                           *)
(***************************************************************************)
\* C11: once the signal has fired no further round is begun: no later
\* CompressAll or CompressSingle call is made and no new command is
\* prepared.
C11_NoRoundAfterSignal == ~round.late

\* C12: when the signal fired while a round was in flight, run does not go
\* on to apply the write policy and returns the Interrupted outcome, never
\* success or the plain error.
C12_InterruptedOutcome ==
    (ctx.done /\ ctx.inFlight) =>
        /\ mainPc # "save"
        /\ mainPc = "exit" => exitCode = Interrupted /\ save.next = 1

\* the paths of the temp directory a round may use
TempPaths ==
    {compressedFilePath(TempDir, InputPath(i).base, t, InputPath(i).ext) :
        i \in Files, t \in Tools}

\* C13: once run has returned, whatever the exit path, no temp file of the
\* run exists any more other than by having been moved to its destination.
C13_NoTempFileLeft ==
    mainPc = "exit" => \A q \in TempPaths : ~Exists(fs, q)

(***************************************************************************)
(* Validation.                                                             *)
(***************************************************************************)
\* a list of the tool's argument map holds or reaches an unknown or a
\* cyclic reference
HasBadReference == \E n \in DOMAIN cfg.Arguments : ~AcyclicDefined(cfg.Arguments, n)

\* run has not gone beyond validation: no input inspected, no tool chosen,
\* no round begun, no subprocess started, no file touched
NothingProcessed ==
    /\ proc.OriginalFileInfo = <<>>
    /\ DOMAIN proc.TempFiles = {}
    /\ DOMAIN job.BatchableTools = {} /\ DOMAIN job.PerFileTools = {}
    /\ round = NoRound
    /\ spawned = {}
    /\ \A q \in DOMAIN fs : fs[q].by = ""

\* C14: a configuration with an unknown or cyclic reference, validation not
\* skipped: run ends with the bad-configuration outcome, and nothing has
\* been processed by then.
C14_BadConfigBeforeProcessing ==
    (~cli.SkipValidation /\ HasBadReference /\ mainPc \notin {"idle", "validate"}) =>
        /\ mainPc = "exit"
        /\ exitCode = BadConfig
        /\ NothingProcessed

(***************************************************************************)
(* Write policies.                                                         *)
(***************************************************************************)
\* the input file a path of the command line stands for
FileAt(path) == CHOOSE i \in Files : PathOf(InputPath(i)) = path

\* the path holds the artifact the tool made from input file i
HoldsArtifact(path, tool, i) ==
    /\ Exists(fs, path)
    /\ fs[path].by = tool
    /\ fs[path].of = i

\* the temp file of the tool for the k-th file of the job
TempOf(tool, k) == proc.TempFiles[tool][k].Path

\* the place beside the k-th original where the artifact of the tool goes
Beside(tool, k) ==
    compressedFilePath(proc.OriginalFileInfo[k].Directory, proc.OriginalFileInfo[k].BaseName,
                       tool, proc.OriginalFileInfo[k].Extension)

\* C15: under overwrite, the original of a file with a winner holds the
\* winner's artifact made from that very file and the winner's temp file is
\* gone; every other original is as it was.
C15_OverwriteInstallsWinner ==
    save.writeMode = Overwrite =>
        \A k \in 1..Len(proc.OriginalFileInfo) :
            LET path == proc.OriginalFileInfo[k].Path
            IN IF k \in Saved /\ save.best[k] # ""
               THEN /\ HoldsArtifact(path, save.best[k], FileAt(path))
                    /\ ~Exists(fs, TempOf(save.best[k], k))
               ELSE Pristine(path)

\* C16: under keep-best, beside the original of a file there is an artifact
\* for the winner of the file, made from that file, and for no other tool,
\* and every original is as it was.
C16_KeepBestOneArtifact ==
    save.writeMode = KeepBest =>
        \A k \in 1..Len(proc.OriginalFileInfo) :
            LET path == proc.OriginalFileInfo[k].Path
            IN /\ Pristine(path)
               /\ \A t \in Tools :
                     IF k \in Saved /\ save.best[k] = t
                     THEN HoldsArtifact(Beside(t, k), t, FileAt(path))
                     ELSE ~Exists(fs, Beside(t, k))

\* the temp artifact of the tool for the k-th file existed when the tool's
\* task built its result
TempExisted(t, k) ==
    /\ ~proc.Results[t][k].nil
    /\ ~proc.Results[t][k].CreateError
    /\ ~proc.Results[t][k].ReadFinalSizeError
    /\ proc.Results[t][k].CommandError # "notfound"

\* C17: under keep-all, the artifacts beside the original of a saved file are
\* as many as the tools whose temp artifact existed after their run, whether
\* the run succeeded or not, and every original is as it was.
C17_KeepAllCountsArtifacts ==
    save.writeMode = KeepAll =>
        \A k \in 1..Len(proc.OriginalFileInfo) :
            /\ Pristine(proc.OriginalFileInfo[k].Path)
            /\ k \in Saved =>
                  Cardinality({t \in Tools : Exists(fs, Beside(t, k))})
                    = Cardinality({t \in DOMAIN proc.Results : TempExisted(t, k)})

\* C18: under the dry policy nothing is moved or created beside an original,
\* every original is as it was, and the temp outputs stay where they are
\* until the cleanup at the return of run.
C18_DryTouchesNothing ==
    save.writeMode = None =>
        /\ \A q \in DOMAIN fs :
              q \in TempPaths \/ \E i \in Files : q = PathOf(InputPath(i))
        /\ \A k \in 1..Len(proc.OriginalFileInfo) : Pristine(proc.OriginalFileInfo[k].Path)
        /\ mainPc = "save" =>
              \A t \in DOMAIN proc.Results :
                  \A k \in 1..Len(proc.Results[t]) :
                      TempExisted(t, k) => Exists(fs, TempOf(t, k))
        /\ mainPc = "exit" => \A q \in TempPaths : ~Exists(fs, q)

C18_Witness ==
    /\ mainPc = "exit"
    /\ save.writeMode = None
    /\ exitCode = ExitOk
    /\ \E k \in Saved : save.best[k] # ""

(***************************************************************************)
(* moveFile on its own.                                                    *)
(***************************************************************************)
\* C20: a move of an existing source renames when the host lets it, and
\* otherwise copies and then removes the source; after a move that returns
\* no error the destination holds the artifact and the source is gone, and
\* after a move that returns an error the source is still there, unchanged.
C20_MoveNeverLoses ==
    (mv.done /\ Exists(mv.before, mv.src)) =>
        /\ mv.how = "rename" => ~mv.err
        /\ ~mv.err =>
              /\ Exists(mv.after, mv.dest)
              /\ mv.after[mv.dest] = mv.before[mv.src]
              /\ ~Exists(mv.after, mv.src)
              /\ \A q \in DOMAIN mv.before \ {mv.src, mv.dest} :
                    Exists(mv.after, q) /\ mv.after[q] = mv.before[q]
        /\ mv.err =>
              /\ Exists(mv.after, mv.src)
              /\ mv.after[mv.src] = mv.before[mv.src]

C20_Witness ==
    /\ mv.done
    /\ mv.how = "fallback"
    /\ ~mv.err
    /\ Exists(mv.before, mv.src)
    /\ Exists(mv.before, mv.dest)
    /\ mv.before[mv.dest] # mv.before[mv.src]

(***************************************************************************)
(* Selection by size and by decode time.                                   *)
(***************************************************************************)
\* the tools whose result for the k-th file is free of errors and the
\* smallest below the original size
SizeBests(k) ==
    {t \in Candidates(k) :
        \A u \in Candidates(k) : proc.Results[t][k].FinalSize <= proc.Results[u][k].FinalSize}

\* the tools whose result for the k-th file decodes fastest, and faster than
\* the original
DecodeBests(k) ==
    {t \in DOMAIN proc.Results :
        /\ proc.Results[t][k].DecodeAverage < proc.OriginalFileInfo[k].Decode.Average
        /\ \A u \in DOMAIN proc.Results :
              proc.Results[t][k].DecodeAverage <= proc.Results[u][k].DecodeAverage}

\* keep-best or overwrite has put the artifact of the tool in place for the
\* k-th file
Materialised(t, k) ==
    \/ save.writeMode = KeepBest /\ Exists(fs, Beside(t, k))
    \/ /\ save.writeMode = Overwrite
       /\ Exists(fs, proc.OriginalFileInfo[k].Path)
       /\ fs[proc.OriginalFileInfo[k].Path].by = t

SomeInvocationFailed ==
    \/ \E t \in DOMAIN round.commands : ~round.commands[t].hasCommand
    \/ \E t \in DOMAIN proc.Results : \E k \in 1..Len(proc.Results[t]) :
          ~proc.Results[t][k].nil /\ HasError(proc.Results[t][k])

\* the run is over: it has returned or it has died
Over == mainPc \in {"exit", "panic", "crashed"}

\* C21, the part about the failures: without a signal, a run in which an
\* invocation failed goes through every file, applies the write policy with
\* the size-best error-free candidate and ends with the plain error status.
C21_PartialFailureGoesOn ==
    (~ctx.done /\ SomeInvocationFailed /\ Over) =>
        /\ mainPc = "exit"
        /\ exitCode = ExitError
        /\ Len(save.best) = Len(proc.OriginalFileInfo)
        /\ \A k \in Saved : save.best[k] # "" => save.best[k] \in SizeBests(k)

\* C21, the part about the hard stops: the usage and input outcomes are
\* returned only when the job has no tool or no readable input, and then
\* nothing was run.
C21_HardStopOnlyWithoutToolsOrInputs ==
    (mainPc = "exit" /\ exitCode \in {BadUsage, BadInput}) =>
        /\ spawned = {}
        /\ round = NoRound
        /\ IF exitCode = BadUsage
           THEN DOMAIN job.BatchableTools = {} /\ DOMAIN job.PerFileTools = {}
           ELSE proc.OriginalFileInfo = <<>> /\ Len(ValidInputs) = 0

(***************************************************************************)
(* Determinism of the selection.                                           *)
(***************************************************************************)
\* C22: the winner of a saved file is the tool findBestToolSize returns for
\* the file's results under every iteration order of the result table.
C22_WinnerIsDeterministic ==
    \A k \in Saved :
        \A order \in Orders(DOMAIN proc.Results) :
            findBestToolSize(proc.Results, proc.OriginalFileInfo, order, k) = save.best[k]

(***************************************************************************)
(* Argument vectors.                                                       *)
(***************************************************************************)
\* the argument vector the tool itself receives: behind the tool's path
\* when a wrapper is the entry point
ToolArgv(s) ==
    SubSeq(s.argv, (IF s.entry = ExecutablePath(s.tool) THEN 0 ELSE 1) + 1, Len(s.argv))

\* the temp copies of the tool that were made, in input order
RECURSIVE CopiesFrom(_, _)
CopiesFrom(tempFiles, i) ==
    IF i > Len(tempFiles) THEN <<>>
    ELSE (IF tempFiles[i].CreateError THEN <<>> ELSE <<tempFiles[i].Path>>)
         \o CopiesFrom(tempFiles, i + 1)

TempCopies(t) == CopiesFrom(proc.TempFiles[t], 1)

\* the runs of a tool in the batch round
BatchRuns(t) == {s \in spawned : s.tool = t /\ s.file = 0}

\* C23: a batch tool is run in the batch round only, at most once, with its
\* arguments followed by the temp copies that were made, in input order; and
\* once its task has recorded its results in a run without a signal, with a
\* copy made, it was run exactly once.
C23_BatchRunsOnceOnAllCopies ==
    \A t \in DOMAIN job.BatchableTools :
        /\ \A s \in spawned : s.tool = t => s.file = 0
        /\ Cardinality(BatchRuns(t)) <= 1
        /\ \A s \in BatchRuns(t) :
              /\ ToolArgv(s) = job.BatchableTools[t].Arguments \o TempCopies(t)
              /\ TempCopies(t) # <<>>
        /\ (t \in DOMAIN proc.Results /\ ~ctx.done /\ TempCopies(t) # <<>>) =>
              Cardinality(BatchRuns(t)) = 1

C23_Witness ==
    /\ mainPc = "exit"
    /\ Len(proc.OriginalFileInfo) = 2
    /\ \E s \in spawned :
          /\ s.file = 0
          /\ s.exit = 0
          /\ ToolArgv(s) = job.BatchableTools[s.tool].Arguments \o <<TempOf(s.tool, 2)>>
          /\ proc.TempFiles[s.tool][1].CreateError

\* the paths of the input files of the command line
OriginalPaths == {PathOf(InputPath(i)) : i \in Files}

\* C24: a batch-overwrite tool is run, in a batch round and in a per-file
\* round alike, on temp copies that were made and on nothing else: no
\* original path is in its argument vector, and it is not run on a file
\* whose copy failed.
C24_OverwritingToolGetsCopiesOnly ==
    \A s \in spawned :
        cfg.OutputMode[s.tool] = BatchOverwrite =>
            /\ \A i \in 1..Len(s.argv) : s.argv[i] \notin OriginalPaths
            /\ Len(s.inputs) > 0
            /\ \A i \in 1..Len(s.inputs) :
                  \E k \in 1..Len(proc.TempFiles[s.tool]) :
                      /\ s.inputs[i] = TempOf(s.tool, k)
                      /\ ~proc.TempFiles[s.tool][k].CreateError
            /\ s.file > 0 =>
                  /\ s.inputs = <<TempOf(s.tool, s.file)>>
                  /\ ~proc.TempFiles[s.tool][s.file].CreateError

C24_Witness ==
    /\ mainPc = "exit"
    /\ cli.PerFile
    /\ \E s \in spawned :
          /\ cfg.OutputMode[s.tool] = BatchOverwrite
          /\ s.file = 2
          /\ proc.TempFiles[s.tool][1].CreateError
          /\ \A r \in spawned : r.file # 1

\* the runs of a tool on one file
RunsOn(t, k) == {s \in spawned : s.tool = t /\ s.file = k}

\* C25: a stdout tool is run on the input path alone, after its own
\* arguments, with its standard output in the temp file created for that
\* file and tool; when the temp file cannot be created nothing is run for
\* that file and tool and the result carries the creation error.
C25_StdoutToolCapturesIntoTempFile ==
    /\ \A s \in spawned :
          cfg.OutputMode[s.tool] = Stdout =>
              /\ s.file > 0
              /\ ToolArgv(s) = job.PerFileTools[s.tool].Arguments
                                  \o <<proc.OriginalFileInfo[s.file].Path>>
              /\ s.stdout = TempOf(s.tool, s.file)
              /\ ~proc.TempFiles[s.tool][s.file].CreateError
    /\ \A t \in DOMAIN proc.TempFiles :
          \A k \in 1..Len(proc.TempFiles[t]) :
              (cfg.OutputMode[t] = Stdout /\ proc.TempFiles[t][k].CreateError) =>
                  /\ RunsOn(t, k) = {}
                  /\ (t \in DOMAIN proc.Results /\ ~proc.Results[t][k].nil) =>
                        /\ proc.Results[t][k].CreateError
                        /\ HasError(proc.Results[t][k])

C25_Witness ==
    \E t \in DOMAIN proc.TempFiles :
        /\ cfg.OutputMode[t] = Stdout
        /\ Len(proc.TempFiles[t]) = 2
        /\ proc.TempFiles[t][1].CreateError
        /\ t \in DOMAIN proc.Results
        /\ ~proc.Results[t][1].nil
        /\ RunsOn(t, 2) # {}

\* C26: an input-output tool is run once per file, on its own arguments,
\* then the input path, then the temp output path.
C26_InputOutputToolGetsBothPaths ==
    /\ \A s \in spawned :
          cfg.OutputMode[s.tool] = InputOutput =>
              /\ s.file > 0
              /\ ToolArgv(s) = job.PerFileTools[s.tool].Arguments
                                  \o <<proc.OriginalFileInfo[s.file].Path,
                                       TempOf(s.tool, s.file)>>
              /\ Cardinality(RunsOn(s.tool, s.file)) = 1
    /\ \A t \in DOMAIN proc.Results :
          \A k \in 1..Len(proc.Results[t]) :
              (cfg.OutputMode[t] = InputOutput /\ ~proc.Results[t][k].nil /\ ~ctx.done) =>
                  Cardinality(RunsOn(t, k)) = 1

C26_Witness ==
    \E t \in Tools :
        /\ cfg.OutputMode[t] = InputOutput
        /\ RunsOn(t, 1) # {}
        /\ RunsOn(t, 2) # {}

\* the tool's executable is on the search path or in the working directory
ExecutableFound(tool, host) ==
    \/ tool.Command \in host.onPath
    \/ ("./" \o tool.Command) \in host.cwd
    \/ /\ Contains(tool.Platform, "windows")
       /\ ~HasSuffix("./" \o tool.Command, ".exe")
       /\ ("./" \o tool.Command \o ".exe") \in host.cwd

\* the host's table has, for one of the tool's platforms, a wrapper that the
\* search path resolves
WrapperResolves(tool, wrappers, host) ==
    \E i \in 1..Len(tool.Platform) :
        /\ tool.Platform[i] \in DOMAIN wrappers
        /\ wrappers[tool.Platform[i]] # ""
        /\ wrappers[tool.Platform[i]] \in host.onPath

Scheduled(t) == (job.BatchableTools @@ job.PerFileTools)[t]

Owners(presets, name) ==
    {owner \in DOMAIN presets : Contains(presets[owner].Shorthands, name)}

\* C29: on a configuration that passes validation every call of QueryPreset
\* answers (name, false) for a preset's name, (owner, true) for a shorthand
\* of the preset owner, and ("", false) for any other name, so that all
\* calls agree.
C29_QueryPresetResolvesShorthands ==
    validatePresets(query.presets) = {} =>
        \A i \in 1..Len(query.calls) :
            /\ query.name \in DOMAIN query.presets =>
                  query.calls[i] = [preset |-> query.name, isShorthand |-> FALSE]
            /\ \A owner \in Owners(query.presets, query.name) :
                  query.calls[i] = [preset |-> owner, isShorthand |-> TRUE]
            /\ (query.name \notin DOMAIN query.presets
                    /\ Owners(query.presets, query.name) = {}) =>
                  query.calls[i] = [preset |-> "", isShorthand |-> FALSE]
            /\ query.calls[i] = query.calls[1]

C29_Witness ==
    /\ validatePresets(query.presets) = {}
    /\ DOMAIN query.presets = PresetNames
    /\ Len(query.calls) = MaxCalls
    /\ query.calls[2] = [preset |-> "max", isShorthand |-> TRUE]

\* every task of the round has written its result
RoundRecorded ==
    \A name \in DOMAIN round.taskPc :
        /\ round.taskPc[name] = "done"
        /\ name \in DOMAIN proc.Results
        /\ IF round.kind = "batch"
           THEN \A k \in 1..Len(proc.Results[name]) : ~proc.Results[name][k].nil
           ELSE ~proc.Results[name][round.fileIdx].nil

\* every tool of the job has a result for every file
AllRecorded ==
    \A name \in DOMAIN job.BatchableTools \cup DOMAIN job.PerFileTools :
        /\ name \in DOMAIN proc.Results
        /\ Len(proc.Results[name]) = Len(proc.OriginalFileInfo)
        /\ \A k \in 1..Len(proc.Results[name]) : ~proc.Results[name][k].nil

\* C30: run leaves a round for the next round, for the decode benchmark or
\* for the evaluation only when every task of the round has recorded its
\* result, and enters the decode benchmark and the evaluation only when the
\* batch round and every per-file round have recorded theirs.
C30_PhasesJoin ==
    [][/\ (mainPc = "round" /\ mainPc' # "round") => RoundRecorded
       /\ (mainPc' # mainPc /\ mainPc' \in {"decode", "save"}) => AllRecorded]_vars

C30_Witness ==
    /\ mainPc = "prepare"
    /\ round.kind = "single"
    /\ round.fileIdx = 2
    /\ DOMAIN job.BatchableTools # {}
    /\ DOMAIN job.PerFileTools # {}
    /\ ~ctx.done

\* the tasks of the round that have not finished
LiveTasks == {n \in DOMAIN round.taskPc : round.taskPc[n] \in {"run", "record", "locked"}}

\* the tables a task touches where it stands: it reads its temp files to
\* build its result (part_003:182-186, 240-241) and writes Results between
\* Lock and Unlock
TaskReads(n) == IF round.taskPc[n] = "run" THEN {"TempFiles"} ELSE {}
TaskWrites(n) == IF round.taskPc[n] = "locked" THEN {"Results"} ELSE {}

\* the tables the main flow touches in the step it is about to take: the
\* preparation of a round fills both, the decode benchmark and the
\* evaluation go through both, CleanUp ranges over the temp files
MainWrites ==
    IF mainPc = "prepare" /\ round.toPrepare # {} THEN {"Results", "TempFiles"}
    ELSE IF mainPc = "decode" THEN {"Results"}
    ELSE {}
MainReads ==
    IF mainPc \in {"decode", "save"} THEN {"Results", "TempFiles"}
    ELSE IF mainPc \in {"await", "panic"} THEN {"TempFiles"}
    ELSE {}

DataRace ==
    \/ \E n \in LiveTasks : (TaskReads(n) \cup TaskWrites(n)) \cap MainWrites # {}
    \/ \E n \in LiveTasks : TaskWrites(n) \cap MainReads # {}
    \/ \E n \in LiveTasks, o \in LiveTasks :
          n # o /\ TaskWrites(n) \cap (TaskReads(o) \cup TaskWrites(o)) # {}

\* C31: a task writes the results table only while it holds the round's
\* mutex, and no two tasks, nor a task and the main flow, touch the results
\* table or the temp-file table at once with one of them writing.
C31_NoDataRace ==
    /\ \A n \in DOMAIN round.taskPc : round.taskPc[n] = "locked" => round.mutex = n
    /\ ~DataRace

C31_Witness ==
    \E n \in LiveTasks, o \in LiveTasks :
        /\ round.taskPc[n] = "locked"
        /\ round.taskPc[o] = "record"
        /\ round.kind = "batch"

\* the (tool, file) pairs that were given a temp path
TempPairs ==
    {u \in Tools \X Files :
        /\ u[1] \in DOMAIN proc.TempFiles
        /\ u[2] <= Len(proc.TempFiles[u[1]])
        /\ proc.TempFiles[u[1]][u[2]].Path # ""}

\* C32: two distinct (tool, file) pairs of a job never have the same temp
\* path.
C32_DistinctTempPaths ==
    \A u \in TempPairs, v \in TempPairs :
        u # v => proc.TempFiles[u[1]][u[2]].Path # proc.TempFiles[v[1]][v[2]].Path

\* the results as they were before the decode benchmark
WithoutDecode(results) ==
    [t \in DOMAIN results |->
        [i \in 1..Len(results[t]) |->
            IF results[t][i].nil THEN results[t][i]
            ELSE [results[t][i] EXCEPT !.DecodeErr = FALSE, !.DecodeAverage = 0]]]

\* C33: the size-best winner of a saved file is a winner findBestToolSize
\* returns for the same compression results without the decode benchmark.
C33_SizeBestIgnoresDecode ==
    \A k \in Saved :
        \E order \in Orders(DOMAIN proc.Results) :
            findBestToolSize(WithoutDecode(proc.Results), proc.OriginalFileInfo, order, k)
                = save.best[k]

\* C34: a scheduled tool is defined, in the availability set, of the job's
\* format and has arguments for the preset; the batch set and the per-file
\* set share no tool, the batch set holds batch-overwrite tools only, and
\* the per-file set holds one only when the per-file mode is forced.
C34_OnlyUsableToolsScheduled ==
    sched.done =>
        /\ \A t \in DOMAIN sched.of.BatchableTools \cup DOMAIN sched.of.PerFileTools :
              /\ t \in DOMAIN sched.tools
              /\ t \in sched.availability
              /\ Contains(sched.tools[t].SupportedFormats, Mime)
              /\ UsedPreset \in DOMAIN sched.tools[t].Arguments
        /\ DOMAIN sched.of.BatchableTools \cap DOMAIN sched.of.PerFileTools = {}
        /\ \A t \in DOMAIN sched.of.BatchableTools :
              sched.tools[t].OutputMode = BatchOverwrite
        /\ \A t \in DOMAIN sched.of.PerFileTools :
              sched.tools[t].OutputMode = BatchOverwrite => sched.perFile

C34_Witness ==
    /\ sched.done
    /\ sched.toolNames = <<"t1", "t2">>
    /\ DOMAIN sched.tools = Tools
    /\ DOMAIN sched.of.BatchableTools = {"t1"}
    /\ DOMAIN sched.of.PerFileTools = {}
    /\ "t2" \notin sched.availability
    /\ Contains(sched.tools["t2"].SupportedFormats, Mime)
    /\ UsedPreset \in DOMAIN sched.tools["t2"].Arguments

\* C35: the host is asked about a tool's executable when the configuration
\* is loaded and never again: the command prepared for a tool of the cached
\* availability set is built on the cached answer.
C35_AvailabilityProbedOnce ==
    \A name \in DOMAIN round.commands :
        name \in cfg.toolAvailability =>
            /\ round.commands[name].hasCommand
            /\ round.commands[name].isAvailable

\* C36: a tool is run only if its configuration declares one of the three
\* output modes.
C36_UndeclaredModeNeverRuns ==
    \A s \in spawned : cfg.OutputMode[s.tool] \in {BatchOverwrite, InputOutput, Stdout}

\* the lists above the call that reported error i, from the starting list down
Ancestors(i) == SubSeq(rOut.paths[i], 1, Len(rOut.paths[i]) - 1)

\* the reference graph holds a diamond: a list referenced from two branches
\* of the expansion, none of them below itself
Diamond ==
    \E p, q, n \in DOMAIN rArgs :
        /\ p # n /\ q # n
        /\ Contains(rArgs[rStart], ReferencePrefix \o p)
        /\ Contains(rArgs[p], ReferencePrefix \o n)
        /\ \/ q = p /\ Contains(rArgs[rStart], ReferencePrefix \o n)
           \/ q # p /\ Contains(rArgs[rStart], ReferencePrefix \o q)
                    /\ Contains(rArgs[q], ReferencePrefix \o n)

\* C37: the visited path is copied per branch: a cycle error is reported only
\* for a reference to a name that lies on the chain of calls from the
\* starting list down to the referring list, so a list referenced from two
\* sibling or differently nested branches is expanded in each of them
\* without a cycle error.
C37_CycleOnlyOnOwnPath ==
    Returned =>
        /\ \A i \in 1..Len(rOut.errs) :
              rOut.errs[i].kind = "cyclic" =>
                  Contains(Ancestors(i), rOut.paths[i][Len(rOut.paths[i])])
        /\ AcyclicDefined(rArgs, rStart) => rOut.errs = <<>>

C37_Witness ==
    /\ Returned
    /\ rStart \in DOMAIN rArgs
    /\ Diamond
    /\ AcyclicDefined(rArgs, rStart)
    /\ rOut.errs = <<>>

\* the step in which the task of a tool runs its command (executeAndReport)
Executes(name) ==
    /\ name \in DOMAIN round.taskPc
    /\ round.taskPc[name] = "run"
    /\ name \in DOMAIN round'.taskPc
    /\ round'.taskPc[name] = "record"

\* C38: a tool is invoked at most once per file of a per-file round and at
\* most once per job in the batch round: a task runs its command only when
\* no subprocess of its tool has been started for that file (for the job),
\* so a failed or killed invocation is never started again.
C38_InvokedAtMostOnce ==
    /\ [](\A s, r \in spawned : (s.tool = r.tool /\ s.file = r.file) => s = r)
    /\ [][\A name \in Tools : Executes(name) => RunsOn(name, round.fileIdx) = {}]_vars

C38_Witness ==
    /\ mainPc = "save"
    /\ \E s \in spawned : s.exit = 1 /\ s.file = 1
    /\ \E s \in spawned : s.exit = 0 /\ s.file = 2
    /\ \E s \in spawned : s.file = 0

\* C39: for every minimum measurement duration, zero included, the
\* benchmark of a file whose validating decode succeeds returns with at
\* least one timed trial, a total of at least the minimum and an average of
\* total divided by trials, never dividing by zero; a file whose validating
\* decode fails gets an error result with no timed trial.
C39_BenchReportsTrials ==
    /\ bench.pc # "panic"
    /\ (bench.pc = "returned" /\ bench.input = "valid") =>
          /\ ~bench.result.Err
          /\ bench.result.Trials >= 1
          /\ bench.result.Total >= bench.minTime
          /\ bench.result.Average = bench.result.Total \div bench.result.Trials
    /\ (bench.pc = "returned" /\ bench.input = "corrupt") =>
          /\ bench.result.Err
          /\ bench.result.Trials = 0

\* the tools whose result for the k-th file carries no error of the
\* compression, of the temp file or of the decode benchmark
BenchedClean(k) ==
    {t \in DOMAIN proc.Results : ~proc.Results[t][k].nil /\ ~HasError(proc.Results[t][k])}

\* C40: the decode-time-best tool reported for a file is never one whose
\* compression, temp file or decode benchmark errored: it is none, or a tool
\* with an error-free benchmark whose average decode time is the least of
\* the error-free ones and strictly below the original's.
C40_DecodeBestIsErrorFree ==
    cli.DecodeTime =>
        \A k \in Saved :
            save.bestDecode[k] # "" =>
                /\ save.bestDecode[k] \in BenchedClean(k)
                /\ proc.Results[save.bestDecode[k]][k].DecodeAverage
                     < proc.OriginalFileInfo[k].Decode.Average
                /\ \A u \in BenchedClean(k) :
                      proc.Results[save.bestDecode[k]][k].DecodeAverage
                        <= proc.Results[u][k].DecodeAverage
====
